---------------------------- MODULE Spec2Model ----------------------------
(***************************************************************************)
(* A model of the locally authored code of the notebooks:                  *)
(*                                                                         *)
(*   - the ranking metrics helper dcg_at_k / scores_at_k of the TED talks  *)
(*     notebook (specification ScoresSpec), and a session of several       *)
(*     calls of it (specification CallsSpec);                              *)
(*   - the top-to-bottom run of the notebooks' cells, with the training    *)
(*     loop train(epoch) of the TED talks notebook (specification Spec);   *)
(*   - the data preparation cells of the TED talks notebook: label         *)
(*     vectors (TagsSpec), training/validation split (SplitSpec) and       *)
(*     embedding matrix (EmbSpec);                                         *)
(*   - the traffic-sign notebook: the datasets and their passes (AugSpec), *)
(*     the parallel map (MapSpec), get_paths (PathsSpec) and the           *)
(*     pre-trained VGG16 model (VggSpec);                                  *)
(*   - the linmodel cells of the California-housing notebook (ChdSpec).    *)
(*                                                                         *)
(* Numbers.  The code computes in IEEE doubles (the label rows are numpy   *)
(* float arrays).  The model computes the same expressions exactly:        *)
(* precision, recall and F1 are fractions <<n, d>> in lowest terms, with   *)
(* numpy's results of a division by zero as <<1, 0>> (inf) and <<0, 0>>    *)
(* (nan); a DCG is an integer number of units of 1e-8, so that the         *)
(* constant 0.00000001 of the code is one unit.                            *)
(***************************************************************************)
EXTENDS Integers, Sequences, FiniteSets, TLC

VARIABLES
    \* ---- scores_at_k(truevals, predvals, k)
    truevals,        \* the argument truevals: a sequence of label rows
    predvals,        \* the argument predvals: a sequence of score rows
    k,               \* the argument k
    pc,              \* "loop" | "done" | "raised"
    j,               \* the loop variable j (0-based, as in the code)
    precision_at_k,  \* the four accumulators
    recall_at_k,
    f1score_at_k,
    ndcg_at_k,
    zerodiv,         \* number of divisions evaluated with a zero denominator
    error,           \* the exception that ended the call, or "none"
    report,          \* the four printed values, or <<>> before the prints
    \* ---- a top-to-bottom run of a notebook
    notebook,        \* the notebook that is run
    cell,            \* the code cell that runs next (1-based, code cells only)
    run,             \* "running" | "stopped" | "finished"
    raised,          \* the error that stopped the run, or "none"
    caught,          \* the errors the notebook's own code caught: <<cell, error>>
    log,             \* the variable log: "unbound" | "SummaryWriter" | "None"
    \* ---- the training cell: for epoch ...: train(epoch); evaluate(...)
    numBatches,      \* len(train_loader)
    epoch,           \* the loop variable epoch (0 outside the training cell)
    tpc,             \* the position in the training cell
    batch_idx,       \* the loop variable batch_idx (-1 before the first batch)
    weights,         \* the number of updates the model's weights have had
    grad,            \* the gradient buffers: the losses backpropagated into them
    output,          \* the output of the last forward pass: <<batch, weights>>
    loss,            \* the last loss computed: <<batch, weights>>
    used,            \* the gradient buffers as the last optimizer step read them
    calls,           \* the framework calls made for the current batch, in order
    seen,            \* the batches the loader yielded in this call of train, in order
    steps,           \* the optimizer steps taken in this call of train
    lossv,           \* len(lossv)
    \* ---- the cell that builds the label vectors (TED talks notebook)
    NLABELS, \* the number of keyword labels
    df_taglist, \* the column df['taglist']: one list of tags per talk
    ntags, \* the dict ntags: [keys |-> insertion order, n |-> counts]
    ntagslist_sorted, \* the tags by descending count
    df_tagidxlist, \* the column df['tagidxlist']
    df_labels, \* the column df['labels']: rows indexed from 0
    tagpc,             \* the statement of the cell that runs next
    splitpc,          \* the position in the split cell
    embpc,            \* the position in the embedding-matrix cell
    augpc,            \* the position in the passes over a dataset
    pathpc,           \* the position in the cells that list the image files
    vggpc,            \* the position in the cells of the pre-trained model
    chdpc,            \* the position in the California-housing cells
    mappc,   \* the position in the parallel map
    \* ---- the training/validation split cell (TED talks notebook)
    data,   \* the array data: one sample (its number) per row
    labels,   \* the array labels: the sample each row of labels belongs to
    indices,   \* the array indices
    num_validation_samples,
    x_train,
    y_train,
    x_val,
    y_val,
    \* ---- the embedding-matrix cell (TED talks notebook)
    MAX_NUM_WORDS,   \* the number of different words to use as tokens
    word_index,   \* the tokenizer's dict: word -> index (from 1)
    embeddings_index,   \* the GloVe dict: word -> vector
    num_words,
    embedding_matrix,   \* rows indexed from 0
    items_left,   \* the items of word_index the loop has not visited yet
    emb_error,   \* the exception that ended the cell, or "none"
    \* ---- passes over a dataset of the traffic-sign notebook
    ds,   \* the dataset: "train" | "validation" | "test"
    image_paths,   \* image_paths[ds]: the images, by number
    image_labels,   \* image_labels[ds]
    BATCH_SIZE,
    mapped,   \* the elements the maps have produced in the current pass
    passes,   \* the batches each completed pass has yielded
    \* ---- the cells that list the image files (traffic-sign notebook)
    found,   \* the number of files under datapath+dataset, by dataset
    paths_returned,   \* image_paths: dataset -> number of paths in the list
    built,   \* what the later cells have built: labels, datasets, model
    path_error,   \* the exception that stopped the run, or "none"
    \* ---- the pre-trained model of the traffic-sign notebook (Option 2)
    trainable,   \* the trainable flags: of vgg16, of its layers, of the stacked layers
    layer_weights,   \* times the weights of a layer have been updated (0: as loaded or initialized)
    compiled,   \* the compile calls so far and the weights the train step updates
    logdir,   \* the variable logdir: <<prefix, time>>
    callbacks_pretrained,   \* the log_dir of the TensorBoard callback in the list
    dirs,   \* the log directories created
    fit_logs,   \* the directory each fit of the pre-trained model has logged to
    saved,   \* the saved models: file -> weights
    fit_epoch,   \* the epochs the running fit has completed
    clock,   \* datetime.datetime.now(), to the second
    \* ---- the linmodel cells of the California-housing notebook
    linmodel,   \* the model bound to linmodel: [id, seed, trained], or <<>>
    inits,   \* the runs of the model-initialization cell so far
    fits_on_model,   \* the completed runs of the fit cell since linmodel was bound
    chd_epoch,   \* the epochs the running fit has completed
    linhistory,   \* len(linhistory.epoch) of the last completed fit
    chd_error,   \* the exception the last cell ended with, or "none"
    \* ---- the parallel map of a dataset (traffic-sign notebook)
    num_parallel_calls,
    in_flight,   \* the calls of the map function that run: element -> frame
    started,   \* the elements whose call has started
    out,   \* the elements the map has yielded, in order
    shared,   \* a variable named image outside the calls
    shared_writes,     \* the writes the calls have made to variables outside them
    returned,          \* the elements, in the order in which their calls returned
    callpc,   \* "idle" between calls of scores_at_k | "call" in one
    \* ---- a session that calls scores_at_k(y_val, predictions, k) several times
    caller_y_val,   \* the caller's array y_val of labels, passed as truevals
    caller_predictions,   \* the caller's array predictions of scores, passed as predvals
    ncalls,   \* the calls made so far
    ref_predvals,   \* the scores of the calls that are compared
    ref_k,   \* the k of the calls that are compared
    ref_calls,   \* the calls scores_at_k(y_val, ref_predvals, ref_k) that have ended
    ref_outcomes,   \* what these calls have printed or raised: <<report, error>>
    other_between,   \* another call has ended after the first of these calls
    args_changed       \* a call has returned with an argument array changed

scoreVars == <<truevals, predvals, k, pc, j, precision_at_k, recall_at_k,
               f1score_at_k, ndcg_at_k, zerodiv, error, report>>

-----------------------------------------------------------------------------
(* Bounds of the model. *)

\* the arrays truevals and predvals hold at most MaxCells entries each
MaxCells == 4
\* prediction scores are drawn from 0..MaxScore
MaxScore == 1

-----------------------------------------------------------------------------
(* Arithmetic. *)

RECURSIVE Gcd(_, _)
Gcd(a, b) == IF b = 0 THEN a ELSE Gcd(b, a % b)

\* a fraction in lowest terms; <<1, 0>> is inf and <<0, 0>> is nan
Norm(n, d) ==
    IF d = 0 THEN (IF n = 0 THEN <<0, 0>> ELSE <<1, 0>>)
    ELSE LET g == Gcd(n, d) IN <<n \div g, d \div g>>

Zero == <<0, 1>>
NaN  == <<0, 0>>
Inf  == <<1, 0>>
IsNaN(x) == x = NaN
IsInf(x) == x = Inf
IsNum(x) == x[2] # 0
FromInt(i) == <<i, 1>>

\* x + y on non-negative doubles: nan is absorbing, inf + y = inf
VAdd(x, y) ==
    IF IsNaN(x) \/ IsNaN(y) THEN NaN
    ELSE IF IsInf(x) \/ IsInf(y) THEN Inf
    ELSE Norm(x[1] * y[2] + y[1] * x[2], x[2] * y[2])

\* x * y on non-negative doubles: 0 * inf = nan
VMul(x, y) ==
    IF IsNaN(x) \/ IsNaN(y) THEN NaN
    ELSE IF IsInf(x) THEN (IF y[1] = 0 THEN NaN ELSE Inf)
    ELSE IF IsInf(y) THEN (IF x[1] = 0 THEN NaN ELSE Inf)
    ELSE Norm(x[1] * y[1], x[2] * y[2])

\* x / y as numpy divides non-negative doubles: x/0 = inf, 0/0 = nan,
\* inf/inf = nan, x/inf = 0
VDiv(x, y) ==
    IF IsNaN(x) \/ IsNaN(y) THEN NaN
    ELSE IF IsInf(x) THEN (IF IsInf(y) THEN NaN ELSE Inf)
    ELSE IF IsInf(y) THEN Zero
    ELSE IF y[1] = 0 THEN (IF x[1] = 0 THEN NaN ELSE Inf)
    ELSE Norm(x[1] * y[2], x[2] * y[1])

\* 1 when the denominator of a division is zero, else 0
ZeroDen(y) == IF IsNum(y) /\ y[1] = 0 THEN 1 ELSE 0


-----------------------------------------------------------------------------
(* Non-negative integers of any size, as sequences of base-10000 digits,   *)
(* least significant first and without leading zeros.  They carry the      *)
(* exact value of an NDCG, whose terms have denominators near 10^8.        *)

RECURSIVE ToBig(_)
ToBig(x) == IF x = 0 THEN <<>> ELSE <<x % 10000>> \o ToBig(x \div 10000)

RECURSIVE BMulSmallC(_, _, _)
BMulSmallC(a, s, c) ==
    IF a = <<>> THEN ToBig(c)
    ELSE LET t == a[1] * s + c
         IN  <<t % 10000>> \o BMulSmallC(Tail(a), s, t \div 10000)

\* a * s for 0 <= s < 200000
BMulSmall(a, s) == IF s = 0 THEN <<>> ELSE BMulSmallC(a, s, 0)

RECURSIVE BAddC(_, _, _)
BAddC(a, b, c) ==
    IF a = <<>> /\ b = <<>> THEN ToBig(c)
    ELSE LET x == IF a = <<>> THEN 0 ELSE a[1]
             y == IF b = <<>> THEN 0 ELSE b[1]
             t == x + y + c
         IN  <<t % 10000>>
             \o BAddC(IF a = <<>> THEN a ELSE Tail(a),
                      IF b = <<>> THEN b ELSE Tail(b), t \div 10000)

BAdd(a, b) == BAddC(a, b, 0)

RECURSIVE BMul(_, _)
BMul(a, b) ==
    IF a = <<>> \/ b = <<>> THEN <<>>
    ELSE LET rest == BMul(a, Tail(b))
         IN  BAdd(BMulSmall(a, b[1]), IF rest = <<>> THEN rest ELSE <<0>> \o rest)

RECURSIVE BLessFrom(_, _, _)
BLessFrom(a, b, i) ==
    IF i = 0 THEN FALSE
    ELSE IF a[i] # b[i] THEN a[i] < b[i]
    ELSE BLessFrom(a, b, i - 1)

BLess(a, b) ==
    \/ Len(a) < Len(b)
    \/ Len(a) = Len(b) /\ BLessFrom(a, b, Len(a))

BLeq(a, b) == ~BLess(b, a)

-----------------------------------------------------------------------------
(* A sum of fractions with large denominators, kept exactly: terms maps    *)
(* each denominator to the sum of the numerators over it, and the whole    *)
(* sum is divided by div.  Terms with numerator 0 are not kept.            *)

EmptySum == [terms |-> <<>>, div |-> 1]

SumAdd(s, num, den) ==
    IF num = 0 THEN s
    ELSE [s EXCEPT !.terms =
            IF den \in DOMAIN s.terms
            THEN [s.terms EXCEPT ![den] = @ + num]
            ELSE (den :> num) @@ s.terms]

SumDiv(s, n) == [s EXCEPT !.div = @ * n]

RECURSIVE BProd(_)
BProd(S) ==
    IF S = {} THEN ToBig(1)
    ELSE LET d == CHOOSE x \in S : TRUE IN BMul(ToBig(d), BProd(S \ {d}))

RECURSIVE BNumer(_, _)
BNumer(terms, S) ==
    IF S = {} THEN <<>>
    ELSE LET d == CHOOSE x \in S : TRUE
         IN  BAdd(BMul(ToBig(terms[d]), BProd(DOMAIN terms \ {d})),
                  BNumer(terms, S \ {d}))

\* the sum as one fraction <<A, B>> of big integers
SumFrac(s) == <<BNumer(s.terms, DOMAIN s.terms),
                BMulSmall(BProd(DOMAIN s.terms), s.div)>>

\* exact comparison of two sums
SumEq(s, t) ==
    LET x == SumFrac(s)
        y == SumFrac(t)
    IN  BMul(x[1], y[2]) = BMul(y[1], x[2])

-----------------------------------------------------------------------------
(* The code of the metrics cell. *)

\* the constant 0.00000001 added to the ideal DCG, in units of 1e-8
Epsilon == 1

\* 1 / np.log2(i + 2), in units of 1e-8
InvLog2(i) ==
    CASE i = 0 -> 100000000
      [] i = 1 -> 63092975
      [] i = 2 -> 50000000
      [] i = 3 -> 43067656
      [] i = 4 -> 38685281
      [] i = 5 -> 35620719
      [] i = 6 -> 33333333
      [] OTHER -> 31546488

\* list(zip(predvals[j], truevals[j])): tuples <<score, label>>
Zip(pv, tv) == [i \in 1..Len(tv) |-> <<pv[i], tv[i]>>]

\* (mutant) sorted() on keys rounded down to even scores
RECURSIVE InsertByBucket(_, _, _)
InsertByBucket(x, s, key) ==
    IF s = <<>> THEN <<x>>
    ELSE IF s[1][key] \div 2 >= x[key] \div 2
         THEN <<s[1]>> \o InsertByBucket(x, Tail(s), key)
    ELSE <<x>> \o s

\* (mutant) an unstable sort: of two equal keys the later element first
RECURSIVE InsertBeforeEqual(_, _, _)
InsertBeforeEqual(x, s, key) ==
    IF s = <<>> THEN <<x>>
    ELSE IF s[1][key] > x[key] THEN <<s[1]>> \o InsertBeforeEqual(x, Tail(s), key)
    ELSE <<x>> \o s

\* x put into s, a list sorted by descending key: behind every element
\* whose key is not smaller (a stable sort keeps equal keys in input order)
RECURSIVE Insert(_, _, _)
Insert(x, s, key) ==
    IF s = <<>> THEN <<x>>
    ELSE IF s[1][key] >= x[key] THEN <<s[1]>> \o Insert(x, Tail(s), key)
    ELSE <<x>> \o s

\* (mutant) reverse=True left out: the stable sort by ascending key
RECURSIVE InsertAscending(_, _, _)
InsertAscending(x, s, key) ==
    IF s = <<>> THEN <<x>>
    ELSE IF s[1][key] <= x[key] THEN <<s[1]>> \o InsertAscending(x, Tail(s), key)
    ELSE <<x>> \o s

RECURSIVE SortedAscending(_, _)
SortedAscending(z, key) ==
    IF z = <<>> THEN <<>>
    ELSE InsertAscending(z[Len(z)], SortedAscending(SubSeq(z, 1, Len(z) - 1), key), key)

\* sorted(z, reverse=True, key=lambda tup: tup[key])
RECURSIVE SortedReverse(_, _)
SortedReverse(z, key) ==
    IF z = <<>> THEN <<>>
    ELSE Insert(z[Len(z)], SortedReverse(SubSeq(z, 1, Len(z) - 1), key), key)

\* (mutant) the discount of position i taken as 1 / log2(i + 3)
RECURSIVE DcgShifted(_, _)
DcgShifted(vals, kk) ==
    IF kk = 0 THEN 0
    ELSE DcgShifted(vals, kk - 1) + vals[kk][2] * InvLog2(kk)

\* dcg_at_k(vals, k), in units of 1e-8 (k <= len(vals))
RECURSIVE dcg_at_k(_, _)
dcg_at_k(vals, kk) ==
    IF kk = 0 THEN 0
    ELSE dcg_at_k(vals, kk - 1) + vals[kk][2] * InvLog2(kk - 1)

\* (mutant) the inner loop stops one label short: range(k - 1)
RECURSIVE TrueSumShort(_, _)
TrueSumShort(sorted_z, kk) ==
    IF kk <= 1 THEN 0 ELSE TrueSumShort(sorted_z, kk - 1) + sorted_z[kk - 1][2]

\* truesum after "for i in range(k): truesum += sorted_z[i][1]"
RECURSIVE TrueSum(_, _)
TrueSum(sorted_z, kk) ==
    IF kk = 0 THEN 0 ELSE TrueSum(sorted_z, kk - 1) + sorted_z[kk][2]

\* np.sum(row)
RECURSIVE NpSum(_)
NpSum(row) == IF row = <<>> THEN 0 ELSE row[1] + NpSum(Tail(row))

\* the denominator of rc: np.sum(truevals[0])
RecallDenominator(tv, jj) == NpSum(tv[1])

\* One pass of the body of "for j in range(len(truevals))" for sample jj
\* (1-based here), from the accumulators acc; kk >= 1 and kk <= row length.
LoopBody(acc, tv, pv, kk, jj) ==
    LET z        == Zip(pv[jj], tv[jj])
        sorted_z == SortedReverse(z, 1)
        opt_z    == SortedReverse(z, 2)
        truesum  == TrueSum(sorted_z, kk)
        pr       == VDiv(FromInt(truesum), FromInt(kk))
        den      == FromInt(RecallDenominator(tv, jj))
        rc       == VDiv(FromInt(truesum), den)
        f1       == VMul(FromInt(2), VDiv(VMul(pr, rc), VAdd(pr, rc)))
    IN  [p  |-> VAdd(acc.p, pr),
         r  |-> VAdd(acc.r, rc),
         f  |-> IF truesum > 0 THEN VAdd(acc.f, f1) ELSE acc.f,
         n  |-> SumAdd(acc.n, dcg_at_k(sorted_z, kk),
                       dcg_at_k(opt_z, kk) + Epsilon),
         zd |-> acc.zd + ZeroDen(FromInt(kk)) + ZeroDen(den)
                + (IF truesum > 0 THEN ZeroDen(VAdd(pr, rc)) ELSE 0)
                + ZeroDen(FromInt(dcg_at_k(opt_z, kk) + Epsilon))]

\* (mutant) the four accumulators are module-level variables that a call
\* does not set to 0: it goes on from the values the last call left
AccsLeftOver == [p |-> precision_at_k, r |-> recall_at_k, f |-> f1score_at_k,
                 n |-> ndcg_at_k, zd |-> zerodiv]

\* the accumulators before the loop
Acc0 == [p |-> Zero, r |-> Zero, f |-> Zero, n |-> EmptySum, zd |-> 0]

\* the four "/= len(truevals)" after the loop (len >= 1)
Averages(acc, len) ==
    [p  |-> VDiv(acc.p, FromInt(len)),
     r  |-> VDiv(acc.r, FromInt(len)),
     f  |-> VDiv(acc.f, FromInt(len)),
     n  |-> SumDiv(acc.n, len),
     zd |-> acc.zd]

\* The exception the call raises, or "none": the first statement to fail is
\* sorted_z[i] with i >= len (IndexError), then truesum / k with the Python
\* ints 0 / 0 (no pass of the inner loop), then, after an empty loop,
\* precision_at_k /= len(truevals) with 0 / 0.
Raises(tv, kk) ==
    IF Len(tv) = 0 THEN "ZeroDivisionError"
    ELSE IF kk > Len(tv[1]) THEN "IndexError"
    ELSE IF kk = 0 THEN "ZeroDivisionError"
    ELSE "none"

\* the accumulators after the loop has run over samples 1..jj
RECURSIVE Loop(_, _, _, _)
Loop(tv, pv, kk, jj) ==
    IF jj = 0 THEN Acc0 ELSE LoopBody(Loop(tv, pv, kk, jj - 1), tv, pv, kk, jj)

\* the four values handed to the prints, for a call that raises nothing
Scores(tv, pv, kk) == Averages(Loop(tv, pv, kk, Len(tv)), Len(tv))

-----------------------------------------------------------------------------
(* The prints: '{:.2f}'.format(x) rounds x to hundredths, a tie going to   *)
(* the even hundredth, and prints nan and inf by name.  A printed value is *)
(* <<"num", hundredths>>, <<"nan", 0>> or <<"inf", 0>>.                    *)

\* a fraction n/d (d > 0) rounded to hundredths
RoundHundredths(n, d) ==
    LET q == (100 * n) \div d
        r == (100 * n) % d
    IN  IF 2 * r > d THEN q + 1
        ELSE IF 2 * r < d THEN q
        ELSE IF q % 2 = 0 THEN q ELSE q + 1

Format2(x) ==
    IF IsNaN(x) THEN <<"nan", 0>>
    ELSE IF IsInf(x) THEN <<"inf", 0>>
    ELSE <<"num", RoundHundredths(x[1], x[2])>>

\* the largest c in lo..hi with c * B <= 100 * A  (lo qualifies)
RECURSIVE FloorSearch(_, _, _, _)
FloorSearch(A100, B, lo, hi) ==
    IF lo = hi THEN lo
    ELSE LET mid == (lo + hi + 1) \div 2
         IN  IF BLeq(BMulSmall(B, mid), A100)
             THEN FloorSearch(A100, B, mid, hi)
             ELSE FloorSearch(A100, B, lo, mid - 1)

\* an NDCG (a sum of fractions, at most 1) rounded to hundredths
FormatSum(s) ==
    LET fr   == SumFrac(s)
        A100 == BMulSmall(fr[1], 100)
        q    == FloorSearch(A100, fr[2], 0, 100)
        A200 == BMulSmall(fr[1], 200)
        half == BMulSmall(fr[2], 2 * q + 1)
    IN  <<"num", IF BLess(half, A200) THEN q + 1
                 ELSE IF BLess(A200, half) THEN q
                 ELSE IF q % 2 = 0 THEN q ELSE q + 1>>

\* the four printed values, in the order of the prints
Printed(avg) == <<Format2(avg.p), Format2(avg.r), Format2(avg.f), FormatSum(avg.n)>>

-----------------------------------------------------------------------------
(* The calls scores_at_k(truevals, predvals, k). *)

\* the shapes (samples, labels) of arrays within the bound
Shapes == {sh \in (0..MaxCells) \X (1..MaxCells) : sh[1] * sh[2] <= MaxCells}

Rows(n, len, vals) == [1..n -> [1..len -> vals]]

runVars == <<notebook, cell, run, raised, caught, log>>

trainVars == <<numBatches, epoch, tpc, batch_idx, weights, grad, output, loss,
               used, calls, seen, steps, lossv>>

(* The variables of the other cells, by cell, and the state in which a    *)
(* cell is not run.                                                        *)

\* the cell that builds the label vectors of the talks
tagVars == <<NLABELS, df_taglist, ntags, ntagslist_sorted, df_tagidxlist, df_labels, tagpc>>

NoTags ==
    /\ NLABELS = 0 /\ df_taglist = <<>> /\ ntags = [keys |-> <<>>, n |-> <<>>]
    /\ ntagslist_sorted = <<>> /\ df_tagidxlist = <<>> /\ df_labels = <<>>
    /\ tagpc = "idle"

\* the training/validation split cell
splitVars == <<splitpc, data, labels, indices, num_validation_samples, x_train, y_train, x_val, y_val>>

NoSplit ==
    /\ splitpc = "idle"
    /\ data = <<>> /\ labels = <<>> /\ indices = <<>>
    /\ num_validation_samples = 0
    /\ x_train = <<>> /\ y_train = <<>> /\ x_val = <<>> /\ y_val = <<>>

\* the embedding-matrix cell
embVars == <<embpc, MAX_NUM_WORDS, word_index, embeddings_index, num_words, embedding_matrix, items_left, emb_error>>

NoEmb ==
    /\ embpc = "idle"
    /\ MAX_NUM_WORDS = 0 /\ word_index = <<>> /\ embeddings_index = <<>>
    /\ num_words = 0 /\ embedding_matrix = <<>> /\ items_left = <<>>
    /\ emb_error = "none"

\* the passes over the traffic-sign datasets
augVars == <<augpc, ds, image_paths, image_labels, BATCH_SIZE, mapped, passes>>

NoAug ==
    /\ augpc = "idle"
    /\ ds = "none" /\ image_paths = <<>> /\ image_labels = <<>>
    /\ BATCH_SIZE = 0 /\ mapped = <<>> /\ passes = <<>>

\* the cells that list the image files of the traffic signs
pathVars == <<pathpc, found, paths_returned, built, path_error>>

NoPaths ==
    /\ pathpc = "idle"
    /\ found = <<>> /\ paths_returned = <<>> /\ built = {} /\ path_error = "none"

\* the cells that train the pre-trained VGG16 model
vggVars == <<vggpc, trainable, layer_weights, compiled, logdir, callbacks_pretrained, dirs, fit_logs, saved, fit_epoch, clock>>

NoVgg ==
    /\ vggpc = "idle"
    /\ trainable = <<>> /\ layer_weights = <<>> /\ compiled = <<>>
    /\ logdir = <<>> /\ callbacks_pretrained = <<>> /\ dirs = {}
    /\ fit_logs = <<>> /\ saved = <<>> /\ fit_epoch = 0 /\ clock = 0

\* the model and fit cells of the California-housing notebook
chdVars == <<chdpc, linmodel, inits, fits_on_model, chd_epoch, linhistory, chd_error>>

NoChd ==
    /\ chdpc = "idle"
    /\ linmodel = <<>> /\ inits = 0 /\ fits_on_model = 0 /\ chd_epoch = 0
    /\ linhistory = 0 /\ chd_error = "none"

\* the parallel map of a traffic-sign dataset
mapVars == <<mappc, num_parallel_calls, in_flight, started, out, shared, shared_writes, returned>>

NoMap ==
    /\ mappc = "idle"
    /\ num_parallel_calls = 0 /\ in_flight = <<>> /\ started = 0 /\ out = <<>>
    /\ shared = <<>> /\ shared_writes = 0 /\ returned = <<>>

\* the calls of scores_at_k that a session makes
callVars == <<callpc, caller_y_val, caller_predictions, ncalls, ref_predvals, ref_k,
              ref_calls, ref_outcomes, other_between, args_changed>>

NoCalls ==
    /\ callpc = "idle"
    /\ caller_y_val = <<>> /\ caller_predictions = <<>> /\ ncalls = 0
    /\ ref_predvals = <<>> /\ ref_k = 0 /\ ref_calls = 0 /\ ref_outcomes = {}
    /\ other_between = FALSE /\ args_changed = FALSE

restVars == <<tagVars, splitVars, embVars, augVars, pathVars, vggVars, chdVars, mapVars, callVars>>

NoRest ==
    /\ NoTags
    /\ NoSplit
    /\ NoEmb
    /\ NoAug
    /\ NoPaths
    /\ NoVgg
    /\ NoChd
    /\ NoMap
    /\ NoCalls

\* every cell but the one named is not run
NoneBut(c) ==
    /\ IF c = "tag" THEN TRUE ELSE NoTags
    /\ IF c = "split" THEN TRUE ELSE NoSplit
    /\ IF c = "emb" THEN TRUE ELSE NoEmb
    /\ IF c = "aug" THEN TRUE ELSE NoAug
    /\ IF c = "path" THEN TRUE ELSE NoPaths
    /\ IF c = "vgg" THEN TRUE ELSE NoVgg
    /\ IF c = "chd" THEN TRUE ELSE NoChd
    /\ IF c = "map" THEN TRUE ELSE NoMap
    /\ IF c = "call" THEN TRUE ELSE NoCalls

tagFrame == <<scoreVars, runVars, trainVars,
    splitVars, embVars, augVars, pathVars, vggVars, chdVars, mapVars, callVars>>

splitFrame == <<scoreVars, runVars, trainVars,
    tagVars, embVars, augVars, pathVars, vggVars, chdVars, mapVars, callVars>>

embFrame == <<scoreVars, runVars, trainVars,
    tagVars, splitVars, augVars, pathVars, vggVars, chdVars, mapVars, callVars>>

augFrame == <<scoreVars, runVars, trainVars,
    tagVars, splitVars, embVars, pathVars, vggVars, chdVars, mapVars, callVars>>

pathFrame == <<scoreVars, runVars, trainVars,
    tagVars, splitVars, embVars, augVars, vggVars, chdVars, mapVars, callVars>>

vggFrame == <<scoreVars, runVars, trainVars,
    tagVars, splitVars, embVars, augVars, pathVars, chdVars, mapVars, callVars>>

chdFrame == <<scoreVars, runVars, trainVars,
    tagVars, splitVars, embVars, augVars, pathVars, vggVars, mapVars, callVars>>

mapFrame == <<scoreVars, runVars, trainVars,
    tagVars, splitVars, embVars, augVars, pathVars, vggVars, chdVars, callVars>>

callFrame == <<runVars, trainVars,
    tagVars, splitVars, embVars, augVars, pathVars, vggVars, chdVars, mapVars>>

vars == <<scoreVars, runVars, trainVars, restVars>>

\* no notebook is run
NoRun ==
    /\ notebook = "none" /\ cell = 0 /\ run = "finished" /\ raised = "none"
    /\ caught = {} /\ log = "unbound"
    /\ numBatches = 0 /\ epoch = 0 /\ tpc = "outside" /\ batch_idx = -1
    /\ weights = 0 /\ grad = <<>> /\ output = <<>> /\ loss = <<>>
    /\ used = <<>> /\ calls = <<>> /\ seen = <<>> /\ steps = 0 /\ lossv = 0

ScoresInit ==
    /\ \E sh \in Shapes :
          /\ truevals \in Rows(sh[1], sh[2], {0, 1})
          /\ predvals \in Rows(sh[1], sh[2], 0..MaxScore)
          /\ k \in 0..(sh[2] + 1)
    /\ pc = "loop"
    /\ j = 0
    /\ precision_at_k = Acc0.p
    /\ recall_at_k = Acc0.r
    /\ f1score_at_k = Acc0.f
    /\ ndcg_at_k = Acc0.n
    /\ zerodiv = Acc0.zd
    /\ error = "none"
    /\ report = <<>>
    /\ NoRun
    /\ NoRest

Accs == [p |-> precision_at_k, r |-> recall_at_k, f |-> f1score_at_k,
         n |-> ndcg_at_k, zd |-> zerodiv]

SetAccs(acc) ==
    /\ precision_at_k' = acc.p
    /\ recall_at_k' = acc.r
    /\ f1score_at_k' = acc.f
    /\ ndcg_at_k' = acc.n
    /\ zerodiv' = acc.zd

\* one pass of the loop body, for sample j
Body ==
    /\ pc = "loop"
    /\ j < Len(truevals)
    /\ Raises(truevals, k) = "none"
    /\ SetAccs(LoopBody(Accs, truevals, predvals, k, j + 1))
    /\ j' = j + 1
    /\ UNCHANGED <<truevals, predvals, k, pc, error, report>>
    /\ UNCHANGED <<runVars, trainVars, restVars>>

\* the first pass of the loop body raises: sorted_z[i] out of range, or 0 / 0
BodyRaises ==
    /\ pc = "loop"
    /\ j < Len(truevals)
    /\ Raises(truevals, k) # "none"
    /\ pc' = "raised"
    /\ error' = Raises(truevals, k)
    /\ UNCHANGED <<truevals, predvals, k, j, precision_at_k, recall_at_k,
                   f1score_at_k, ndcg_at_k, zerodiv, report>>
    /\ UNCHANGED <<runVars, trainVars, restVars>>

\* after the loop: the four divisions by len(truevals) and the four prints
Finish ==
    /\ pc = "loop"
    /\ j = Len(truevals)
    /\ Len(truevals) > 0
    /\ SetAccs(Averages(Accs, Len(truevals)))
    /\ report' = Printed(Averages(Accs, Len(truevals)))
    /\ pc' = "done"
    /\ UNCHANGED <<truevals, predvals, k, j, error>>
    /\ UNCHANGED <<runVars, trainVars, restVars>>

\* after an empty loop: precision_at_k /= 0 on Python ints raises
FinishRaises ==
    /\ pc = "loop"
    /\ j = Len(truevals)
    /\ Len(truevals) = 0
    /\ pc' = "raised"
    /\ error' = "ZeroDivisionError"
    /\ UNCHANGED <<truevals, predvals, k, j, precision_at_k, recall_at_k,
                   f1score_at_k, ndcg_at_k, zerodiv, report>>
    /\ UNCHANGED <<runVars, trainVars, restVars>>

ScoresNext == Body \/ BodyRaises \/ Finish \/ FinishRaises

ScoresSpec == ScoresInit /\ [][ScoresNext]_vars

-----------------------------------------------------------------------------
(* The metrics as the claims define them, by ranks instead of a sort.      *)

\* label a is ranked ahead of label b by the keys: a larger key first, and
\* of two equal keys the lower index first
Ahead(keys, a, b) == keys[a] > keys[b] \/ (keys[a] = keys[b] /\ a < b)

\* the 0-based position of label i in the ranking by the keys
Rank(keys, i) == Cardinality({a \in DOMAIN keys : Ahead(keys, a, i)})

\* the kk highest-ranked labels
TopK(keys, kk) == {i \in DOMAIN keys : Rank(keys, i) < kk}

\* the number of true labels of a row, and among its kk highest-scored labels
NTrue(tvrow) == Cardinality({i \in DOMAIN tvrow : tvrow[i] = 1})
Hits(tvrow, pvrow, kk) == Cardinality({i \in TopK(pvrow, kk) : tvrow[i] = 1})

\* sum over i in S of label i / log2(rank of i + 2), in units of 1e-8
RECURSIVE RankedGain(_, _, _)
RankedGain(tvrow, keys, S) ==
    IF S = {} THEN 0
    ELSE LET i == CHOOSE x \in S : TRUE
         IN  tvrow[i] * InvLog2(Rank(keys, i)) + RankedGain(tvrow, keys, S \ {i})

\* DCG@kk of the labels ordered by descending key
RankedDCG(tvrow, keys, kk) == RankedGain(tvrow, keys, TopK(keys, kk))

\* the mean over the samples 1..Len(tv) of term(jj)
RECURSIVE SumOver(_, _)
SumOver(term(_), n) == IF n = 0 THEN Zero ELSE VAdd(SumOver(term, n - 1), term(n))
MeanOver(term(_), n) == VDiv(SumOver(term, n), FromInt(n))

Samples == 1..Len(truevals)
Labels == IF Len(truevals) = 0 THEN {} ELSE DOMAIN truevals[1]
Completed == pc = "done"

\* every true label is ranked ahead of every false label by the scores
PerfectlyRanked(jj) ==
    \A a, b \in Labels :
        truevals[jj][a] = 1 /\ truevals[jj][b] = 0 => Ahead(predvals[jj], a, b)

\* the scores are strictly monotonic with the labels
StrictlyMonotonic(jj) ==
    \A a, b \in Labels :
        truevals[jj][a] > truevals[jj][b] => predvals[jj][a] > predvals[jj][b]

PrecisionOf(jj) == Norm(Hits(truevals[jj], predvals[jj], k), k)
RecallOf(jj) == Norm(Hits(truevals[jj], predvals[jj], k), NTrue(truevals[jj]))
F1Of(jj) ==
    IF Hits(truevals[jj], predvals[jj], k) = 0 THEN Zero
    ELSE VMul(FromInt(2), VDiv(VMul(PrecisionOf(jj), RecallOf(jj)),
                               VAdd(PrecisionOf(jj), RecallOf(jj))))

-----------------------------------------------------------------------------
(* Claims C1 to C8: scores_at_k. *)

\* C1: for a call with at least one sample and 1 <= k <= number of labels,
\* the recall@k reported is the mean over the samples j of (true labels
\* among the k highest-scored labels of j) / (true labels of j).  Stated
\* where every sample has a true label, so that the mean is defined.
C1_RecallIsMeanOfPerSampleRecall ==
    (Completed /\ \A jj \in Samples : NTrue(truevals[jj]) >= 1)
        => report[2] = Format2(MeanOver(RecallOf, Len(truevals)))

\* a call after which the loop ran over two samples with different numbers
\* of true labels
C1_Witness ==
    /\ Completed
    /\ Len(truevals) >= 2
    /\ \A jj \in Samples : NTrue(truevals[jj]) >= 1
    /\ \E jj \in Samples : NTrue(truevals[jj]) # NTrue(truevals[1])

One == <<1, 1>>
Printed100 == <<"num", 100>>

\* the case of C2: at least one sample, each perfectly ranked and with
\* exactly k true labels
C2_Case ==
    /\ Len(truevals) >= 1
    /\ \A jj \in Samples : PerfectlyRanked(jj) /\ NTrue(truevals[jj]) = k

\* C2 as stated: for every non-empty set of samples, each perfectly ranked,
\* and k the number of true labels of each sample, the call reports
\* precision@k = 1 and recall@k = 1.
C2_Original ==
    (pc # "loop" /\ C2_Case)
        => /\ Completed
           /\ report[1] = Printed100
           /\ report[2] = Printed100

\* C2 (amended): the same for samples that have at least one true label
\* (k >= 1): precision@k and recall@k are exactly 1 and are printed as 1.00.
C2_PerfectRankingGivesOne ==
    (pc # "loop" /\ C2_Case /\ k >= 1)
        => /\ Completed
           /\ precision_at_k = One /\ report[1] = Printed100
           /\ recall_at_k = One /\ report[2] = Printed100

C2_Witness ==
    /\ Completed /\ C2_Case /\ k >= 1 /\ Len(truevals) >= 2
    /\ \E jj \in Samples : \E a \in Labels : truevals[jj][a] = 0

\* units of 1e-8 in 1
Unit == 100000000

\* 1 - x <= 1e-8 and x < 1, for the sum x
JustBelowOne(x) ==
    LET fr == SumFrac(x)
    IN  /\ BLess(fr[1], fr[2])
        /\ BLeq(BMul(ToBig(Unit), fr[2]), BAdd(fr[2], BMul(ToBig(Unit), fr[1])))

\* C3 as stated: for every non-empty set of samples whose scores are
\* monotonic with the labels, and every k from 1 to the number of labels,
\* the NDCG@k reported is 1.
C3_Original ==
    (Completed /\ \A jj \in Samples : StrictlyMonotonic(jj))
        => report[4] = Printed100

\* C3 (amended): if moreover every sample has at least one true label, the
\* NDCG@k is printed as 1.00; its value is below 1 by at most 1e-8.
C3_PerfectRankingGivesNDCGOne ==
    (Completed /\ \A jj \in Samples : PerfectlyRanked(jj) /\ NTrue(truevals[jj]) >= 1)
        => /\ report[4] = Printed100
           /\ JustBelowOne(ndcg_at_k)

C3_Witness ==
    /\ Completed /\ Len(truevals) >= 2 /\ k >= 2
    /\ \A jj \in Samples : PerfectlyRanked(jj) /\ NTrue(truevals[jj]) >= 1
    /\ \E jj \in Samples : NTrue(truevals[jj]) < k

\* the strictly increasing maps of the scores into 0..MaxScore + 2
Increasing ==
    {f \in [0..MaxScore -> 0..(MaxScore + 2)] :
        \A a, b \in 0..MaxScore : a < b => f[a] < f[b]}

Rescaled(f, pv) == [jj \in DOMAIN pv |-> [i \in DOMAIN pv[jj] |-> f[pv[jj][i]]]]

\* C4: for every strictly increasing f applied to all prediction scores,
\* scores_at_k(truevals, f(predvals), k) gives the same precision@k,
\* recall@k, F1@k and NDCG@k, and so the same prints, as
\* scores_at_k(truevals, predvals, k).  (Whether a call raises depends on
\* the shape of truevals and on k alone.)
C4_InvariantUnderIncreasingMaps ==
    Completed =>
        \A f \in Increasing :
            LET s == Scores(truevals, Rescaled(f, predvals), k)
            IN  /\ s.p = precision_at_k
                /\ s.r = recall_at_k
                /\ s.f = f1score_at_k
                /\ s.n = ndcg_at_k
                /\ Printed(s) = report

C4_Witness ==
    /\ Completed
    /\ \E jj \in Samples : \E a, b \in Labels :
          /\ predvals[jj][a] < predvals[jj][b]
          /\ truevals[jj][a] # truevals[jj][b]
    /\ \E f \in Increasing : Rescaled(f, predvals) # predvals

\* C5: for a call with at least one sample and 1 <= k <= number of labels,
\* no division with a zero denominator is evaluated.
C5_NoZeroDenominator ==
    (Len(truevals) >= 1 /\ k >= 1 /\ k <= Cardinality(Labels)) => zerodiv = 0

\* the labels ordered by descending ground truth have DCG@k 0
NoIdealGain(jj) == RankedDCG(truevals[jj], truevals[jj], k) = 0

\* the sum over the samples 1..n of DCG@k by score / (DCG@k by truth + eps)
RECURSIVE GainRatios(_, _)
GainRatios(n, eps) ==
    IF n = 0 THEN EmptySum
    ELSE SumAdd(GainRatios(n - 1, eps),
                RankedDCG(truevals[n], predvals[n], k),
                RankedDCG(truevals[n], truevals[n], k) + eps)

\* the print of the mean of DCG@k by score / DCG@k by truth, a sample with
\* 0 / 0 making it nan as the arrays' arithmetic does
PrintedPlainRatio ==
    IF \E jj \in Samples : NoIdealGain(jj) THEN <<"nan", 0>>
    ELSE FormatSum(SumDiv(GainRatios(Len(truevals), 0), Len(truevals)))

\* C6 as stated: the NDCG@k reported is the mean over the samples of
\* (DCG@k of the labels by descending score) / (DCG@k of the labels by
\* descending ground truth), DCG@k being the sum over positions i < k of
\* label_i / log2(i + 2).
C6_Original == Completed => report[4] = PrintedPlainRatio

\* C6 (amended): the divisor is the DCG@k of the labels by descending
\* ground truth plus 1e-8, so that a sample without true labels adds 0.
C6_NDCGIsMeanOfGainRatios ==
    Completed =>
        LET ref == SumDiv(GainRatios(Len(truevals), Epsilon), Len(truevals))
        IN  /\ SumEq(ndcg_at_k, ref)
            /\ report[4] = FormatSum(ref)

C6_Witness ==
    /\ Completed /\ Len(truevals) >= 2 /\ k >= 2
    /\ \E jj \in Samples : ~PerfectlyRanked(jj) /\ Hits(truevals[jj], predvals[jj], k) >= 1
    /\ \E jj \in Samples : NoIdealGain(jj)

\* C7: the precision@k reported is the mean over the samples of (true
\* labels among the k highest-scored labels) / k, equal scores being ranked
\* by ascending index.
C7_PrecisionIsMeanOfHitsOverK ==
    Completed =>
        /\ precision_at_k = MeanOver(PrecisionOf, Len(truevals))
        /\ report[1] = Format2(MeanOver(PrecisionOf, Len(truevals)))

\* a tie between a true and a false label decides which is in the top k
C7_Witness ==
    /\ Completed
    /\ \E jj \in Samples : \E a, b \in Labels :
          /\ predvals[jj][a] = predvals[jj][b]
          /\ truevals[jj][a] # truevals[jj][b]
          /\ Rank(predvals[jj], a) < k
          /\ Rank(predvals[jj], b) >= k

\* C8: the F1@k reported is the mean over all samples of 2*p*r/(p+r), p
\* and r the sample's precision@k and recall@k, a sample with no true label
\* among its top k adding 0.  Stated where every sample has a true label.
C8_F1IsMeanOfPerSampleF1 ==
    (Completed /\ \A jj \in Samples : NTrue(truevals[jj]) >= 1)
        => report[3] = Format2(MeanOver(F1Of, Len(truevals)))

-----------------------------------------------------------------------------
(* A top-to-bottom run of a notebook.  A cell either completes or raises   *)
(* an error; an error that no except clause of the cell catches ends the   *)
(* run at that cell.                                                       *)

\* the loader of the training set holds 1..MaxBatches batches
MaxBatches == 2

Notebooks == {"ted", "chd", "notmnist", "gtsrb"}

\* the number of code cells of a notebook
NCodeCells(nb) ==
    CASE nb = "ted"      -> 32
      [] nb = "chd"      -> 20
      [] nb = "notmnist" -> 14
      [] nb = "gtsrb"    -> 30

\* the errors a cell may raise
Errors == {"ImportError", "OSError", "AssertionError"}

\* the code cells of the TED notebook that the model tells apart
TensorboardCell == 2
ModelCells == {13, 24}
TrainingCells == {16, 25}

\* epochs = 20
Epochs == 20

\* (mutant) a bare "except:" in the tensorboardX cell
HandlesBareExcept(nb, c) ==
    IF nb = "ted" /\ c = TensorboardCell THEN Errors ELSE {}

\* the errors that an except clause of cell c of notebook nb catches
Handles(nb, c) ==
    IF nb = "ted" /\ c = TensorboardCell THEN {"ImportError"} ELSE {}

IsTrainingCell(nb, c) == nb = "ted" /\ c \in TrainingCells

RunInit ==
    /\ notebook \in Notebooks
    /\ numBatches \in 1..MaxBatches
    /\ cell = 1
    /\ run = "running"
    /\ raised = "none"
    /\ caught = {}
    /\ log = "unbound"
    /\ epoch = 0 /\ tpc = "outside" /\ batch_idx = -1
    /\ weights = 0 /\ grad = <<>> /\ output = <<>> /\ loss = <<>>
    /\ used = <<>> /\ calls = <<>> /\ seen = <<>> /\ steps = 0 /\ lossv = 0

\* no call of scores_at_k is modelled in a run
NoCall ==
    /\ truevals = <<>> /\ predvals = <<>> /\ k = 0 /\ pc = "done" /\ j = 0
    /\ precision_at_k = Zero /\ recall_at_k = Zero /\ f1score_at_k = Zero
    /\ ndcg_at_k = EmptySum /\ zerodiv = 0 /\ error = "none" /\ report = <<>>

\* the run moves on to the cell after c
Advance(c) ==
    /\ cell' = c + 1
    /\ run' = IF c = NCodeCells(notebook) THEN "finished" ELSE "running"

\* a cell other than a training cell runs to its end
RunCell ==
    /\ run = "running"
    /\ ~IsTrainingCell(notebook, cell)
    /\ Advance(cell)
    /\ log' = IF notebook = "ted" /\ cell = TensorboardCell
              THEN "SummaryWriter" ELSE log
    \* model = Net().to(device); optimizer = optim.RMSprop(model.parameters())
    /\ IF notebook = "ted" /\ cell \in ModelCells
       THEN weights' = 0 /\ grad' = <<>>
       ELSE UNCHANGED <<weights, grad>>
    /\ UNCHANGED <<notebook, raised, caught, numBatches, epoch, tpc, batch_idx,
                   output, loss, used, calls, seen, steps, lossv>>
    /\ UNCHANGED <<scoreVars, restVars>>

\* the running cell raises an error that no except clause of the cell
\* catches: the error ends the run at this cell
RaisePropagates ==
    /\ run = "running"
    /\ \E e \in Errors \ Handles(notebook, cell) :
          /\ run' = "stopped"
          /\ raised' = e
    /\ UNCHANGED <<notebook, cell, caught, log, trainVars>>
    /\ UNCHANGED <<scoreVars, restVars>>

\* the running cell raises an error inside a try whose except clause
\* catches it: the clause of the TED notebook binds log = None, and the
\* cell completes
RaiseCaught ==
    /\ run = "running"
    /\ \E e \in Errors \cap Handles(notebook, cell) :
          caught' = caught \cup {<<cell, e>>}
    /\ log' = "None"
    /\ Advance(cell)
    /\ UNCHANGED <<notebook, raised, trainVars>>
    /\ UNCHANGED <<scoreVars, restVars>>

-----------------------------------------------------------------------------
(* The training cells of the TED notebook:                                 *)
(*     lossv = []                                                          *)
(*     for epoch in range(1, epochs + 1):                                  *)
(*         train(epoch)                                                    *)
(*         with torch.no_grad(): evaluate(validation_loader, lossv)        *)
(* A loss is <<batch, weights>>: the batch it was computed on and the      *)
(* number of updates the weights had had at the forward pass.  The         *)
(* gradient buffers are the sequence of the losses backpropagated into     *)
(* them since they were last zeroed (backward adds to the buffers).        *)

\* (mutant) the buffers are not zeroed
ZeroGradSkipped(g) == g

\* optimizer.zero_grad() on the buffers g
ZeroGradBuffers(g) == <<>>

\* loss.backward() on the buffers g
BackwardInto(g, l) == Append(g, l)

\* the batch that enumerate(train_loader) yields after batch b
LoaderNext(b) == b + 1

InTraining == run = "running" /\ IsTrainingCell(notebook, cell)

\* epochs = 20; lossv = []
EnterTrainingCell ==
    /\ InTraining /\ tpc = "outside"
    /\ tpc' = "epochs" /\ epoch' = 0 /\ lossv' = 0
    /\ UNCHANGED <<runVars, numBatches, batch_idx, weights, grad, output, loss,
                   used, calls, seen, steps>>
    /\ UNCHANGED <<scoreVars, restVars>>

\* the next pass of the loop over the epochs calls train(epoch): model.train()
NextEpoch ==
    /\ InTraining /\ tpc = "epochs" /\ epoch < Epochs
    /\ epoch' = epoch + 1
    /\ tpc' = "loader" /\ batch_idx' = -1 /\ seen' = <<>> /\ steps' = 0
    /\ calls' = <<>>
    /\ UNCHANGED <<runVars, numBatches, weights, grad, output, loss, used, lossv>>
    /\ UNCHANGED <<scoreVars, restVars>>

\* the loader yields the next batch; data and target go to the device
NextBatch ==
    /\ InTraining /\ tpc = "loader" /\ LoaderNext(batch_idx) < numBatches
    /\ batch_idx' = LoaderNext(batch_idx)
    /\ seen' = Append(seen, LoaderNext(batch_idx))
    /\ calls' = <<>>
    /\ tpc' = "batch"
    /\ UNCHANGED <<runVars, numBatches, epoch, weights, grad, output, loss,
                   used, steps, lossv>>
    /\ UNCHANGED <<scoreVars, restVars>>

\* optimizer.zero_grad()
ZeroGrad ==
    /\ InTraining /\ tpc = "batch"
    /\ grad' = ZeroGradBuffers(grad)
    /\ calls' = Append(calls, "zero_grad")
    /\ tpc' = "zeroed"
    /\ UNCHANGED <<runVars, numBatches, epoch, batch_idx, weights, output, loss,
                   used, seen, steps, lossv>>
    /\ UNCHANGED <<scoreVars, restVars>>

\* output = model(data)
Forward ==
    /\ InTraining /\ tpc = "zeroed"
    /\ output' = <<batch_idx, weights>>
    /\ calls' = Append(calls, "forward")
    /\ tpc' = "forwarded"
    /\ UNCHANGED <<runVars, numBatches, epoch, batch_idx, weights, grad, loss,
                   used, seen, steps, lossv>>
    /\ UNCHANGED <<scoreVars, restVars>>

\* loss = criterion(output, target)
Loss ==
    /\ InTraining /\ tpc = "forwarded"
    /\ loss' = output
    /\ calls' = Append(calls, "loss")
    /\ tpc' = "lossed"
    /\ UNCHANGED <<runVars, numBatches, epoch, batch_idx, weights, grad, output,
                   used, seen, steps, lossv>>
    /\ UNCHANGED <<scoreVars, restVars>>

\* loss.backward()
Backward ==
    /\ InTraining /\ tpc = "lossed"
    /\ grad' = BackwardInto(grad, loss)
    /\ calls' = Append(calls, "backward")
    /\ tpc' = "backwarded"
    /\ UNCHANGED <<runVars, numBatches, epoch, batch_idx, weights, output, loss,
                   used, seen, steps, lossv>>
    /\ UNCHANGED <<scoreVars, restVars>>

\* optimizer.step(), and the print of every log_interval-th batch
OptimizerStep ==
    /\ InTraining /\ tpc = "backwarded"
    /\ used' = grad
    /\ weights' = weights + 1
    /\ steps' = steps + 1
    /\ calls' = Append(calls, "step")
    /\ tpc' = "loader"
    /\ UNCHANGED <<runVars, numBatches, epoch, batch_idx, grad, output, loss,
                   seen, lossv>>
    /\ UNCHANGED <<scoreVars, restVars>>

\* the loader is exhausted: train(epoch) returns
TrainReturns ==
    /\ InTraining /\ tpc = "loader" /\ LoaderNext(batch_idx) >= numBatches
    /\ tpc' = "evaluate"
    /\ UNCHANGED <<runVars, numBatches, epoch, batch_idx, weights, grad, output,
                   loss, used, calls, seen, steps, lossv>>
    /\ UNCHANGED <<scoreVars, restVars>>

\* evaluate(validation_loader, lossv) appends the validation loss
Evaluate ==
    /\ InTraining /\ tpc = "evaluate"
    /\ lossv' = lossv + 1
    /\ tpc' = "epochs"
    /\ UNCHANGED <<runVars, numBatches, epoch, batch_idx, weights, grad, output,
                   loss, used, calls, seen, steps>>
    /\ UNCHANGED <<scoreVars, restVars>>

\* the loop over the epochs ends, and with it the cell
LeaveTrainingCell ==
    /\ InTraining /\ tpc = "epochs" /\ epoch = Epochs
    /\ tpc' = "outside" /\ epoch' = 0
    /\ Advance(cell)
    /\ UNCHANGED <<notebook, raised, caught, log, numBatches, batch_idx,
                   weights, grad, output, loss, used, calls, seen, steps, lossv>>
    /\ UNCHANGED <<scoreVars, restVars>>

Init ==
    /\ RunInit
    /\ NoCall
    /\ NoRest

Train ==
    \/ EnterTrainingCell \/ NextEpoch \/ NextBatch \/ ZeroGrad \/ Forward
    \/ Loss \/ Backward \/ OptimizerStep \/ TrainReturns \/ Evaluate
    \/ LeaveTrainingCell

Next == RunCell \/ RaisePropagates \/ RaiseCaught \/ Train

Spec == Init /\ [][Next]_vars

-----------------------------------------------------------------------------
(* Claims C9 and C10: the run of a notebook and the training loop. *)

\* C9 as stated: no notebook handles a failure itself; no notebook code
\* catches an error and continues with a fallback value, a failed import of
\* tensorboardX in the TED notebook included.
C9_Original == caught = {} /\ log # "None"

\* C9 (amended): every error raised while a cell runs ends the run at that
\* cell, except an ImportError raised in the tensorboardX cell of the TED
\* notebook: its except clause catches it, binds the fallback log = None,
\* and the run goes on.
C9_OnlyTheTensorboardImportIsHandled ==
    /\ caught \subseteq {<<TensorboardCell, "ImportError">>}
    /\ caught # {} => notebook = "ted" /\ cell > TensorboardCell
    /\ log = "None" <=> caught # {}
    /\ raised # "none" <=> run = "stopped"
    /\ run = "stopped" => ~ENABLED Next

\* the import of tensorboardX failed, the run went on with log = None, and
\* an error of a later cell ended it
C9_Witness ==
    /\ caught # {} /\ log = "None"
    /\ run = "stopped" /\ raised = "ImportError" /\ cell > TensorboardCell

\* the framework calls of one batch, in the order of train(epoch)
CallOrder == <<"zero_grad", "forward", "loss", "backward", "step">>

RECURSIVE UpTo(_)
UpTo(n) == IF n < 0 THEN <<>> ELSE Append(UpTo(n - 1), n)

\* C10: in train(epoch), for every batch the calls are zero_grad, forward,
\* loss, backward, step, in this order; one optimizer step is taken per
\* batch, and it reads the gradient of that batch alone (computed at the
\* weights the step then updates); one call of train() visits every batch
\* of the loader exactly once.
C10_TrainLoopOrder ==
    tpc \notin {"outside", "epochs"} =>
        /\ calls = SubSeq(CallOrder, 1, Len(calls))
        /\ seen = UpTo(batch_idx)
        /\ steps = (IF tpc \in {"loader", "evaluate"} THEN batch_idx + 1 ELSE batch_idx)
        /\ (tpc = "loader" /\ batch_idx >= 0) =>
              /\ calls = CallOrder
              /\ used = << <<batch_idx, weights - 1>> >>
        /\ tpc = "evaluate" =>
              /\ seen = UpTo(numBatches - 1)
              /\ steps = numBatches

\* a second call of train() has gone through all of several batches
C10_Witness ==
    /\ tpc = "evaluate" /\ epoch >= 2 /\ numBatches >= 2
    /\ steps = numBatches /\ Len(used) = 1

-----------------------------------------------------------------------------
(* The cell that turns the tags of the talks into label vectors:           *)
(*     ntags = dict(); for tl in df['taglist']: for t in tl: ...           *)
(*     ntagslist_sorted = sorted(ntags, key=ntags.get, reverse=True)       *)
(*     df['tagidxlist'] = df['taglist'].apply(tags_to_indices)             *)
(*     df['labels'] = df['tagidxlist'].apply(indices_to_labels)            *)

\* the data frame holds at most MaxTalks talks
MaxTalks == 2
\* a talk has at most MaxTagsPerTalk tags
MaxTagsPerTalk == 2
\* NLABELS is drawn from 1..MaxLabels
MaxLabels == 3

\* the tags that occur in the data
Tags == {"art", "science", "technology"}

SeqsUpTo(S, n) == UNION {[1..m -> S] : m \in 0..n}

\* the body of the two for loops, for the tags ts in the order they are met
RECURSIVE CountInto(_, _)
CountInto(d, ts) ==
    IF ts = <<>> THEN d
    ELSE LET t == Head(ts)
         IN  CountInto(IF t \in DOMAIN d.n
                       THEN [d EXCEPT !.n[t] = @ + 1]
                       ELSE [keys |-> Append(d.keys, t), n |-> d.n @@ (t :> 1)],
                       Tail(ts))

\* for tl in df['taglist']: for t in tl
RECURSIVE Flatten(_)
Flatten(tls) == IF tls = <<>> THEN <<>> ELSE Head(tls) \o Flatten(Tail(tls))

\* sorted(ntags, key=ntags.get, reverse=True): the keys of the dict in
\* insertion order, sorted stably by descending count
SortedTags(d) ==
    LET z == [i \in 1..Len(d.keys) |-> <<d.keys[i], d.n[d.keys[i]]>>]
        sorted == SortedReverse(z, 2)
    IN  [i \in 1..Len(sorted) |-> sorted[i][1]]

\* list.index(t): the 0-based position of the first t
ListIndex(l, t) == (CHOOSE i \in 1..Len(l) :
                       l[i] = t /\ \A m \in 1..(i - 1) : l[m] # t) - 1

\* (mutant) tags_to_indices with 1-based positions
tags_to_indices_from_one(x, sorted) == [m \in 1..Len(x) |-> ListIndex(sorted, x[m]) + 1]

tags_to_indices(x, sorted) == [m \in 1..Len(x) |-> ListIndex(sorted, x[m])]

\* labels = np.zeros(NLABELS); for i in x: if i < NLABELS: labels[i] = 1
RECURSIVE SetLabels(_, _, _)
SetLabels(row, x, n) ==
    IF x = <<>> THEN row
    ELSE SetLabels(IF Head(x) < n THEN [row EXCEPT ![Head(x)] = 1] ELSE row,
                   Tail(x), n)

indices_to_labels(x, n) == SetLabels([i \in 0..(n - 1) |-> 0], x, n)

TagsInit ==
    /\ NLABELS \in 1..MaxLabels
    /\ df_taglist \in SeqsUpTo(SeqsUpTo(Tags, MaxTagsPerTalk), MaxTalks)
    /\ ntags = [keys |-> <<>>, n |-> <<>>]
    /\ ntagslist_sorted = <<>> /\ df_tagidxlist = <<>> /\ df_labels = <<>>
    /\ tagpc = "count"
    /\ NoCall /\ NoRun /\ NoneBut("tag")

CountTags ==
    /\ tagpc = "count"
    /\ ntags' = CountInto(ntags, Flatten(df_taglist))
    /\ tagpc' = "sort"
    /\ UNCHANGED <<NLABELS, df_taglist, ntagslist_sorted, df_tagidxlist, df_labels>>
    /\ UNCHANGED tagFrame

SortTags ==
    /\ tagpc = "sort"
    /\ ntagslist_sorted' = SortedTags(ntags)
    /\ tagpc' = "indices"
    /\ UNCHANGED <<NLABELS, df_taglist, ntags, df_tagidxlist, df_labels>>
    /\ UNCHANGED tagFrame

ApplyTagsToIndices ==
    /\ tagpc = "indices"
    /\ df_tagidxlist' = [m \in 1..Len(df_taglist) |->
                            tags_to_indices(df_taglist[m], ntagslist_sorted)]
    /\ tagpc' = "labels"
    /\ UNCHANGED <<NLABELS, df_taglist, ntags, ntagslist_sorted, df_labels>>
    /\ UNCHANGED tagFrame

ApplyIndicesToLabels ==
    /\ tagpc = "labels"
    /\ df_labels' = [m \in 1..Len(df_tagidxlist) |->
                        indices_to_labels(df_tagidxlist[m], NLABELS)]
    /\ tagpc' = "done"
    /\ UNCHANGED <<NLABELS, df_taglist, ntags, ntagslist_sorted, df_tagidxlist>>
    /\ UNCHANGED tagFrame

TagsNext == CountTags \/ SortTags \/ ApplyTagsToIndices \/ ApplyIndicesToLabels

TagsSpec == TagsInit /\ [][TagsNext]_vars

\* the number of times tag t occurs in the data
RECURSIVE Occurrences(_, _)
Occurrences(t, ts) ==
    IF ts = <<>> THEN 0
    ELSE (IF Head(ts) = t THEN 1 ELSE 0) + Occurrences(t, Tail(ts))

Occ(t) == Occurrences(t, Flatten(df_taglist))

HasTag(m, t) == \E p \in 1..Len(df_taglist[m]) : df_taglist[m][p] = t

\* the tag at rank i (0-based) of the tag order, if there is one
Ranked(i) == i + 1 \in 1..Len(ntagslist_sorted)

\* ntagslist_sorted lists every tag of the data once, by descending frequency
IsFrequencyOrder ==
    /\ \A t \in Tags : Occ(t) > 0 <=> \E a \in 1..Len(ntagslist_sorted) : ntagslist_sorted[a] = t
    /\ \A a, b \in 1..Len(ntagslist_sorted) :
          /\ a # b => ntagslist_sorted[a] # ntagslist_sorted[b]
          /\ a < b => Occ(ntagslist_sorted[a]) >= Occ(ntagslist_sorted[b])

\* C11: when the cell is done, the tag order is a descending-frequency order
\* of the tags of the data (so no tag of rank >= NLABELS occurs more often
\* than a tag of rank < NLABELS), every talk has a label vector with the
\* entries 0..NLABELS-1, and labels[i] = 1 exactly when the talk's tag list
\* contains the tag of rank i, 0 otherwise.
C11_LabelsAreTheMostFrequentTags ==
    tagpc = "done" =>
        /\ IsFrequencyOrder
        /\ Len(df_labels) = Len(df_taglist)
        /\ \A m \in 1..Len(df_taglist) :
              /\ DOMAIN df_labels[m] = 0..(NLABELS - 1)
              /\ \A i \in 0..(NLABELS - 1) :
                    df_labels[m][i] = IF Ranked(i) /\ HasTag(m, ntagslist_sorted[i + 1])
                                      THEN 1 ELSE 0

\* two talks, one with a tag of rank >= NLABELS and a tag of rank < NLABELS
C11_Witness ==
    /\ tagpc = "done" /\ Len(df_taglist) = 2
    /\ \E m \in 1..2 : \E p, q \in 1..Len(df_tagidxlist[m]) :
          /\ df_tagidxlist[m][p] >= NLABELS
          /\ df_tagidxlist[m][q] < NLABELS
          /\ df_labels[m][df_tagidxlist[m][q]] = 1

-----------------------------------------------------------------------------
(* The training/validation split cell:                                     *)
(*     indices = np.arange(data.shape[0]); np.random.shuffle(indices)      *)
(*     data = data[indices]; labels = labels[indices]                      *)
(*     num_validation_samples = int(VALIDATION_SPLIT * data.shape[0])      *)
(*     x_train = data[:-num_validation_samples]  ...                       *)
(*     x_val = data[-num_validation_samples:]    ...                       *)

\* the data holds 1..MaxSamples samples
MaxSamples == 6

\* VALIDATION_SPLIT = 0.2, as the fraction 2/10
VALIDATION_SPLIT == <<2, 10>>

\* int(VALIDATION_SPLIT * n): the product truncated towards zero
IntOfSplit(n) == (VALIDATION_SPLIT[1] * n) \div VALIDATION_SPLIT[2]

Min2(a, b) == IF a < b THEN a ELSE b
Max2(a, b) == IF a > b THEN a ELSE b

\* a slice bound of Python for a sequence of length n: a negative bound
\* counts from the end, and the bound is clipped to 0..n
SliceBound(b, n) == IF b < 0 THEN Max2(b + n, 0) ELSE Min2(b, n)

\* s[:stop]
SliceTo(s, stop) == SubSeq(s, 1, SliceBound(stop, Len(s)))

\* s[start:]
SliceFrom(s, start) == SubSeq(s, SliceBound(start, Len(s)) + 1, Len(s))

\* a[idx] for an index array idx (0-based entries)
Take(a, idx) == [i \in 1..Len(idx) |-> a[idx[i] + 1]]

\* the arrangements np.random.shuffle can leave in an array of 0..n-1
Shuffles(n) == {p \in [1..n -> 0..(n - 1)] : \A a, b \in 1..n : a # b => p[a] # p[b]}

SplitInit ==
    /\ \E n \in 1..MaxSamples :
          /\ data = [i \in 1..n |-> i]
          /\ labels = [i \in 1..n |-> i]
    /\ indices = <<>>
    /\ num_validation_samples = 0
    /\ x_train = <<>> /\ y_train = <<>> /\ x_val = <<>> /\ y_val = <<>>
    /\ splitpc = "shuffle"
    /\ NoCall /\ NoRun /\ NoneBut("split")

\* indices = np.arange(data.shape[0]); np.random.shuffle(indices)
ShuffleIndices ==
    /\ splitpc = "shuffle"
    /\ indices' \in Shuffles(Len(data))
    /\ splitpc' = "reorder"
    /\ UNCHANGED <<data, labels, num_validation_samples, x_train, y_train, x_val, y_val>>
    /\ UNCHANGED splitFrame

\* data = data[indices]; labels = labels[indices]
Reorder ==
    /\ splitpc = "reorder"
    /\ data' = Take(data, indices)
    /\ labels' = Take(labels, indices)
    /\ splitpc' = "count"
    /\ UNCHANGED <<indices, num_validation_samples, x_train, y_train, x_val, y_val>>
    /\ UNCHANGED splitFrame

\* num_validation_samples = int(VALIDATION_SPLIT * data.shape[0])
CountValidation ==
    /\ splitpc = "count"
    /\ num_validation_samples' = IntOfSplit(Len(data))
    /\ splitpc' = "slice"
    /\ UNCHANGED <<data, labels, indices, x_train, y_train, x_val, y_val>>
    /\ UNCHANGED splitFrame

\* the four slices
Slice ==
    /\ splitpc = "slice"
    /\ x_train' = SliceTo(data, 0 - num_validation_samples)
    /\ y_train' = SliceTo(labels, 0 - num_validation_samples)
    /\ x_val' = SliceFrom(data, 0 - num_validation_samples)
    /\ y_val' = SliceFrom(labels, 0 - num_validation_samples)
    /\ splitpc' = "done"
    /\ UNCHANGED <<data, labels, indices, num_validation_samples>>
    /\ UNCHANGED splitFrame

SplitNext == ShuffleIndices \/ Reorder \/ CountValidation \/ Slice

SplitSpec == SplitInit /\ [][SplitNext]_vars

SeqRange(s) == {s[i] : i \in 1..Len(s)}

\* the sets are a partition of the samples of the given sizes
SplitsInto(nval, ntrain) ==
    /\ Len(x_val) = nval /\ Len(y_val) = nval
    /\ Len(x_train) = ntrain /\ Len(y_train) = ntrain
    /\ SeqRange(x_val) \cap SeqRange(x_train) = {}
    /\ SeqRange(x_val) \cup SeqRange(x_train) = 1..Len(data)
    /\ Cardinality(SeqRange(x_val)) = nval
    /\ Cardinality(SeqRange(x_train)) = ntrain

\* C12: for every number of samples N >= 1 the split cell leaves a
\* validation set of exactly int(0.2 * N) samples and a training set of the
\* other N - int(0.2 * N) samples; no sample is in both sets and every
\* sample is in one of them.
C12_SplitSizes ==
    splitpc = "done" =>
        SplitsInto(IntOfSplit(Len(data)), Len(data) - IntOfSplit(Len(data)))

\* the same for the data sets the slices are right for: int(0.2 * N) >= 1
C12_SplitSizesOfFiveOrMore ==
    (splitpc = "done" /\ IntOfSplit(Len(data)) >= 1) =>
        SplitsInto(IntOfSplit(Len(data)), Len(data) - IntOfSplit(Len(data)))

\* with fewer than five samples every sample is in the validation set
C12_FewSamplesAllValidation ==
    (splitpc = "done" /\ IntOfSplit(Len(data)) = 0) => SplitsInto(Len(data), 0)

-----------------------------------------------------------------------------
(* The embedding-matrix cell:                                              *)
(*     num_words = min(MAX_NUM_WORDS, len(word_index) + 1)                 *)
(*     embedding_matrix = np.zeros((num_words, embedding_dim))             *)
(*     for word, i in word_index.items():                                  *)
(*         if i >= MAX_NUM_WORDS: continue                                 *)
(*         embedding_vector = embeddings_index.get(word)                   *)
(*         if embedding_vector is not None:                                *)
(*             embedding_matrix[i] = embedding_vector                      *)
(* A vector is a number of 1..2; the all-zeros row is 0.                   *)

\* the texts hold at most MaxVocab different words
MaxVocab == 3

Words == 1..MaxVocab
Vectors == {1, 2}
ZeroRow == 0

\* the vocabularies of a tokenizer: the words it has seen, most frequent first
Vocabularies ==
    {v \in SeqsUpTo(Words, MaxVocab) : \A a, b \in 1..Len(v) : a # b => v[a] # v[b]}

\* tokenizer.word_index: the word at place i of the vocabulary has index i
WordIndexOf(v) == [w \in {v[i] : i \in 1..Len(v)} |-> CHOOSE i \in 1..Len(v) : v[i] = w]

\* the dicts embeddings_index can be
EmbeddingDicts == UNION {[D -> Vectors] : D \in SUBSET Words}

\* (mutant) if i > MAX_NUM_WORDS: continue
SkippedAbove(i, max) == i > max

\* if i >= MAX_NUM_WORDS: continue
Skipped(i, max) == i >= max

EmbInit ==
    /\ MAX_NUM_WORDS \in 1..(MaxVocab + 1)
    /\ \E v \in Vocabularies :
          /\ word_index = WordIndexOf(v)
          /\ items_left = v
    /\ embeddings_index \in EmbeddingDicts
    /\ num_words = 0 /\ embedding_matrix = <<>>
    /\ emb_error = "none"
    /\ embpc = "alloc"
    /\ NoCall /\ NoRun /\ NoneBut("emb")

\* num_words = min(...); embedding_matrix = np.zeros((num_words, embedding_dim))
AllocMatrix ==
    /\ embpc = "alloc"
    /\ num_words' = Min2(MAX_NUM_WORDS, Cardinality(DOMAIN word_index) + 1)
    /\ embedding_matrix' = [i \in 0..(num_words' - 1) |-> ZeroRow]
    /\ embpc' = "loop"
    /\ UNCHANGED <<MAX_NUM_WORDS, word_index, embeddings_index, items_left, emb_error>>
    /\ UNCHANGED embFrame

\* one pass of the loop body, for the next item of word_index
EmbItem ==
    /\ embpc = "loop"
    /\ items_left # <<>>
    /\ LET word == Head(items_left)
           i == word_index[word]
       IN  IF Skipped(i, MAX_NUM_WORDS) \/ word \notin DOMAIN embeddings_index
           THEN UNCHANGED <<embedding_matrix, emb_error, embpc>>
           ELSE IF i \in DOMAIN embedding_matrix
                THEN /\ embedding_matrix' = [embedding_matrix EXCEPT ![i] = embeddings_index[word]]
                     /\ UNCHANGED <<emb_error, embpc>>
                ELSE \* an index out of the bounds of the array
                     /\ emb_error' = "IndexError"
                     /\ embpc' = "raised"
                     /\ UNCHANGED embedding_matrix
    /\ items_left' = Tail(items_left)
    /\ UNCHANGED <<MAX_NUM_WORDS, word_index, embeddings_index, num_words>>
    /\ UNCHANGED embFrame

\* embedding_matrix = torch.FloatTensor(embedding_matrix)
EmbFinish ==
    /\ embpc = "loop"
    /\ items_left = <<>>
    /\ embpc' = "done"
    /\ UNCHANGED <<MAX_NUM_WORDS, word_index, embeddings_index, num_words,
                   embedding_matrix, items_left, emb_error>>
    /\ UNCHANGED embFrame

EmbNext == AllocMatrix \/ EmbItem \/ EmbFinish

EmbSpec == EmbInit /\ [][EmbNext]_vars

\* the row that the claim gives index i
ExpectedRow(i) ==
    IF \E w \in DOMAIN word_index : word_index[w] = i /\ w \in DOMAIN embeddings_index
    THEN embeddings_index[CHOOSE w \in DOMAIN word_index : word_index[w] = i]
    ELSE ZeroRow

\* C13: no write addresses a row outside 0..num_words-1 (the cell never
\* raises), and after the cell the matrix has the rows 0..num_words-1,
\* num_words = min(MAX_NUM_WORDS, len(word_index) + 1); row i is the GloVe
\* vector of the word with tokenizer index i if the word has one, and all
\* zeros otherwise.
C13_EmbeddingRows ==
    /\ embpc # "raised" /\ emb_error = "none"
    /\ embpc = "done" =>
          /\ num_words = Min2(MAX_NUM_WORDS, Cardinality(DOMAIN word_index) + 1)
          /\ DOMAIN embedding_matrix = 0..(num_words - 1)
          /\ \A i \in 0..(num_words - 1) : embedding_matrix[i] = ExpectedRow(i)

\* a vocabulary larger than MAX_NUM_WORDS: a word with a vector is left
\* out, one is written, and one row of a word without a vector stays zero
C13_Witness ==
    /\ embpc = "done"
    /\ Cardinality(DOMAIN word_index) + 1 > MAX_NUM_WORDS
    /\ \E w \in DOMAIN word_index :
          word_index[w] >= MAX_NUM_WORDS /\ w \in DOMAIN embeddings_index
    /\ \E i \in 1..(num_words - 1) : embedding_matrix[i] # ZeroRow
    /\ \E w \in DOMAIN word_index :
          word_index[w] < num_words /\ w \notin DOMAIN embeddings_index

-----------------------------------------------------------------------------
(* The datasets of the traffic-sign notebook:                              *)
(*     Dataset.from_tensor_slices((image_paths[ds], image_labels[ds]))     *)
(*         .map(load_image)                                                *)
(*         .map(process_and_[not_]augment_image, num_parallel_calls=10)    *)
(*         [.shuffle(2000)].batch(BATCH_SIZE, drop_remainder=...)          *)
(* An image is a record: the file it was loaded from, the operations of    *)
(* tf.image applied to it in order, and the joint outcome of the random    *)
(* operations among them (0 when there is none).                           *)

\* a dataset holds at most MaxImages images
MaxImages == 2
\* BATCH_SIZE is drawn from 1..MaxBatchSize
MaxBatchSize == 2

Datasets == {"train", "validation", "test"}

\* the outcomes the random operations of one call can have, taken together
RandomDraws == {1, 2}

RandomOps == {"random_crop", "random_flip_left_right", "random_brightness"}

\* (mutant) every dataset is mapped through process_and_augment_image
MapFunctionAugmentAll(d) == "process_and_augment_image"

\* the function the dataset d is mapped through
MapFunction(d) ==
    IF d = "train" THEN "process_and_augment_image"
    ELSE "process_and_not_augment_image"

\* .shuffle(2000) is applied to train_dataset only
IsShuffled(d) == d = "train"

\* drop_remainder of .batch(): True for train and validation, False for test
DropRemainder(d) == d # "test"

\* load_image(path, label): the image of the file
load_image(path, label) == <<[file |-> path, ops |-> <<>>, draw |-> 0], label>>

\* preprocess_image(image, augment); draw is the outcome of the random
\* operations, read only when augment holds
preprocess_image(image, augment, draw) ==
    IF augment
    THEN [image EXCEPT !.ops = @ \o <<"resize_80", "random_crop",
                                      "random_flip_left_right",
                                      "random_brightness", "clip_by_value",
                                      "divide_255">>,
                       !.draw = draw]
    ELSE [image EXCEPT !.ops = @ \o <<"resize_75", "divide_255">>]

process_and_augment_image(image, label, draw) ==
    <<preprocess_image(image, TRUE, draw), label>>

process_and_not_augment_image(image, label, draw) ==
    <<preprocess_image(image, FALSE, draw), label>>

\* the call of the map function fn
Apply(fn, image, label, draw) ==
    IF fn = "process_and_augment_image"
    THEN process_and_augment_image(image, label, draw)
    ELSE process_and_not_augment_image(image, label, draw)

\* .batch(size, drop_remainder=drop)
RECURSIVE Batch(_, _, _)
Batch(s, size, drop) ==
    IF Len(s) = 0 THEN <<>>
    ELSE IF Len(s) < size THEN (IF drop THEN <<>> ELSE <<s>>)
    ELSE <<SubSeq(s, 1, size)>> \o Batch(SubSeq(s, size + 1, Len(s)), size, drop)

\* the orders in which .shuffle() can yield the elements of s
Orders(s, shuffled) ==
    IF shuffled THEN {Take(s, p) : p \in Shuffles(Len(s))} ELSE {s}

AugInit ==
    /\ ds \in Datasets
    /\ \E n \in 0..MaxImages :
          /\ image_paths = [i \in 1..n |-> i]
          /\ image_labels \in [1..n -> {0, 1}]
    /\ BATCH_SIZE \in 1..MaxBatchSize
    /\ mapped = <<>> /\ passes = <<>>
    /\ augpc = "map"
    /\ NoCall /\ NoRun /\ NoneBut("aug")

\* the two maps produce the next element of the pass
MapElement ==
    /\ augpc = "map"
    /\ Len(mapped) < Len(image_paths)
    /\ LET i == Len(mapped) + 1
           loaded == load_image(image_paths[i], image_labels[i])
       IN  \E draw \in RandomDraws :
              mapped' = Append(mapped, Apply(MapFunction(ds), loaded[1], loaded[2], draw))
    /\ UNCHANGED <<ds, image_paths, image_labels, BATCH_SIZE, passes, augpc>>
    /\ UNCHANGED augFrame

\* the pass ends: the elements are shuffled (train) and batched
EndPass ==
    /\ augpc = "map"
    /\ Len(mapped) = Len(image_paths)
    /\ \E o \in Orders(mapped, IsShuffled(ds)) :
          passes' = Append(passes, Batch(o, BATCH_SIZE, DropRemainder(ds)))
    /\ mapped' = <<>>
    /\ augpc' = IF Len(passes) = 1 THEN "done" ELSE "map"
    /\ UNCHANGED <<ds, image_paths, image_labels, BATCH_SIZE>>
    /\ UNCHANGED augFrame

AugNext == MapElement \/ EndPass

AugSpec == AugInit /\ [][AugNext]_vars

\* the image is the output of the resize-and-normalize path
NotAugmented(image) ==
    /\ image.ops = <<"resize_75", "divide_255">>
    /\ image.draw = 0

\* the elements (pairs of image and label) that the passes have yielded
Yielded == {passes[p][b][i] : <<p, b, i>> \in
               {t \in (1..Len(passes)) \X (1..MaxImages + 1) \X (1..MaxBatchSize + 1) :
                   t[2] <= Len(passes[t[1]]) /\ t[3] <= Len(passes[t[1]][t[2]])}}

\* C14: no random transformation is applied to an element of
\* validation_dataset or test_dataset: each is the output of the
\* resize-and-normalize path, and two passes over validation or test data
\* yield identical batches of images.
C14_OnlyTrainingDataIsAugmented ==
    ds # "train" =>
        /\ \A m \in 1..Len(mapped) : NotAugmented(mapped[m][1])
        /\ \A el \in Yielded : NotAugmented(el[1])
        /\ Len(passes) = 2 => passes[1] = passes[2]

\* two passes over a validation set that yield a batch of two images each
C14_Witness ==
    /\ ds = "validation" /\ augpc = "done" /\ Len(passes) = 2
    /\ Len(passes[1]) >= 1 /\ Len(passes[1][1]) >= 2
    /\ \A el \in Yielded : el[1].ops # <<>>

-----------------------------------------------------------------------------
(* The cells of the traffic-sign notebook from get_paths to the first      *)
(* model, run top to bottom:                                               *)
(*     image_paths['train'] = get_paths('train') ... 'validation', 'test'  *)
(*     label_names, label_to_index, image_labels[...] = get_labels(...)    *)
(*     train_dataset, validation_dataset, test_dataset                     *)
(*     model = Sequential() ...                                            *)

\* (nimages['train'], nimages['validation'], nimages['test'])
nimages == [train |-> 5535, validation |-> 999, test |-> 12630]

\* the order of the three calls of get_paths
GetPathsCalls == <<"train", "validation", "test">>

\* the numbers of files a directory may hold
FileCounts(d) == {0, nimages[d] - 1, nimages[d], nimages[d] + 1}

\* (mutant) assert image_count >= nimages[dataset]
AssertAtLeast(image_count, d) == image_count >= nimages[d]

\* assert image_count == nimages[dataset]
AssertHolds(image_count, d) == image_count = nimages[d]

\* the cell position after the get_paths call of dataset d
AfterCall(d) ==
    CASE d = "train" -> "validation"
      [] d = "validation" -> "test"
      [] d = "test" -> "labels"

PathsInit ==
    /\ found \in [train : FileCounts("train"),
                  validation : FileCounts("validation"),
                  test : FileCounts("test")]
    /\ paths_returned = <<>>
    /\ built = {}
    /\ path_error = "none"
    /\ pathpc = "train"
    /\ NoCall /\ NoRun /\ NoneBut("path")

\* image_paths[d] = get_paths(d), when the assertion holds
GetPathsReturns ==
    /\ pathpc \in {"train", "validation", "test"}
    /\ AssertHolds(found[pathpc], pathpc)
    /\ paths_returned' = paths_returned @@ (pathpc :> found[pathpc])
    /\ pathpc' = AfterCall(pathpc)
    /\ UNCHANGED <<found, built, path_error>>
    /\ UNCHANGED pathFrame

\* get_paths(d) fails its assertion: the error ends the run
GetPathsRaises ==
    /\ pathpc \in {"train", "validation", "test"}
    /\ ~AssertHolds(found[pathpc], pathpc)
    /\ path_error' = "AssertionError"
    /\ pathpc' = "raised"
    /\ UNCHANGED <<found, paths_returned, built>>
    /\ UNCHANGED pathFrame

\* label_names, label_to_index, image_labels
BuildLabels ==
    /\ pathpc = "labels"
    /\ built' = built \cup {"labels"}
    /\ pathpc' = "datasets"
    /\ UNCHANGED <<found, paths_returned, path_error>>
    /\ UNCHANGED pathFrame

\* train_dataset, validation_dataset, test_dataset
BuildDatasets ==
    /\ pathpc = "datasets"
    /\ built' = built \cup {"datasets"}
    /\ pathpc' = "model"
    /\ UNCHANGED <<found, paths_returned, path_error>>
    /\ UNCHANGED pathFrame

\* model = Sequential() ... model.compile(...)
BuildModel ==
    /\ pathpc = "model"
    /\ built' = built \cup {"model"}
    /\ pathpc' = "finished"
    /\ UNCHANGED <<found, paths_returned, path_error>>
    /\ UNCHANGED pathFrame

PathsNext ==
    GetPathsReturns \/ GetPathsRaises \/ BuildLabels \/ BuildDatasets \/ BuildModel

PathsSpec == PathsInit /\ [][PathsNext]_vars

\* the datasets whose get_paths call has returned, by the position of the run
Called ==
    CASE pathpc = "train" -> {}
      [] pathpc = "validation" -> {"train"}
      [] pathpc = "test" -> {"train", "validation"}
      [] pathpc = "raised" -> DOMAIN paths_returned
      [] OTHER -> {"train", "validation", "test"}

\* C15: get_paths(dataset) returns the list of paths only when the number
\* of files found is the expected count of the dataset; a call that finds
\* another number fails with an AssertionError, and in a top-to-bottom run
\* no labels, datasets or models are built unless the three directories
\* hold the expected numbers of files.
C15_GetPathsChecksTheCount ==
    /\ \A d \in DOMAIN paths_returned :
          paths_returned[d] = found[d] /\ found[d] = nimages[d]
    /\ pathpc = "raised" =>
          /\ path_error = "AssertionError"
          /\ \E d \in DOMAIN found : found[d] # nimages[d]
    /\ DOMAIN paths_returned = Called
    /\ \A d \in Called : found[d] = nimages[d]
    /\ built # {} => \A d \in DOMAIN found : found[d] = nimages[d]

\* the train directory is as expected, the validation directory holds one
\* file too many: the second call has raised and nothing is built
C15_Witness ==
    /\ pathpc = "raised" /\ DOMAIN paths_returned = {"train"}
    /\ found["validation"] = nimages["validation"] + 1
    /\ built = {}

\* every directory as expected: the run builds the model
C15_WitnessBuilt == pathpc = "finished" /\ built = {"labels", "datasets", "model"}

-----------------------------------------------------------------------------
(* Option 2 of the traffic-sign notebook, run top to bottom:               *)
(*     vgg16 = applications.VGG16(...); vgg16.trainable = False            *)
(*     model = Sequential([vgg16, Flatten(), Dense, Dense]); compile       *)
(*     logdir = ...; os.makedirs(logdir); callbacks_pretrained = [...]     *)
(*     model.fit(...); model.save("gtsrb-vgg16-reuse.h5")                  *)
(*     model.evaluate(test_dataset)                                        *)
(*     model.layers[0].trainable = True; layer.trainable = i >= 15; compile*)
(*     model.fit(...); model.save("gtsrb-vgg16-finetune.h5")               *)
(* Keras: setting trainable on a model sets it on every layer of the       *)
(* model; the weights of a layer inside a model are trainable when both    *)
(* flags hold; fit updates the weights that were trainable at compile.     *)

\* the clock shows 1..MaxClock
MaxClock == 2

\* epochs = 20 (both fits)
EpochsPretrained == 20

\* the layers of VGG16 without the top, by index
VGG16Layers ==
    [i \in 0..18 |->
        <<"input_1",
          "block1_conv1", "block1_conv2", "block1_pool",
          "block2_conv1", "block2_conv2", "block2_pool",
          "block3_conv1", "block3_conv2", "block3_conv3", "block3_pool",
          "block4_conv1", "block4_conv2", "block4_conv3", "block4_pool",
          "block5_conv1", "block5_conv2", "block5_conv3", "block5_pool">>[i + 1]]

\* the block of each layer (0 for the input layer)
BlockOf(i) ==
    IF i = 0 THEN 0 ELSE IF i <= 3 THEN 1 ELSE IF i <= 6 THEN 2
    ELSE IF i <= 10 THEN 3 ELSE IF i <= 14 THEN 4 ELSE 5

\* the convolution layers hold weights; input and pooling layers hold none
ConvLayers == {1, 2, 4, 5, 7, 8, 9, 11, 12, 13, 15, 16, 17}

\* Flatten(), Dense(256), Dense(43)
StackedLayers == {"flatten", "dense", "dense_1"}
DenseLayers == {"dense", "dense_1"}

\* (mutant) vgg16.trainable = True
VggTrainableLeftOn == TRUE

\* vgg16.trainable = False
VggTrainable == FALSE

\* (mutant) layer.trainable = i >= 11
UnfrozenFromBlock4(i) == i >= 11

\* layer.trainable = i >= 15
Unfrozen(i) == i >= 15

\* model.trainable_weights: the layers whose weights a train step updates
TrainableWeights(tr) ==
    [sub |-> IF tr.vgg16 THEN {i \in ConvLayers : tr.sub[i]} ELSE {},
     top |-> {l \in DenseLayers : tr.top[l]}]

\* one epoch of fit on weights w with the compiled set c
EpochOn(w, c) ==
    [sub |-> [i \in DOMAIN w.sub |-> IF i \in c.sub THEN w.sub[i] + 1 ELSE w.sub[i]],
     top |-> [l \in DOMAIN w.top |-> IF l \in c.top THEN w.top[l] + 1 ELSE w.top[l]]]

\* the state after Option 1: the log directory of the small CNN exists
VggInit ==
    /\ clock \in 1..MaxClock
    /\ logdir = <<"gtsrb-small-cnn-", clock>>
    /\ dirs = {logdir}
    /\ callbacks_pretrained = <<>>
    /\ trainable = <<>> /\ layer_weights = <<>> /\ compiled = <<>>
    /\ fit_logs = <<>> /\ saved = <<>> /\ fit_epoch = 0
    /\ vggpc = "vgg16"
    /\ NoCall /\ NoRun /\ NoneBut("vgg")

\* vgg16 = applications.VGG16(weights='imagenet', ...); vgg16.trainable = False
LoadVgg16 ==
    /\ vggpc = "vgg16"
    /\ trainable' = [vgg16 |-> VggTrainable,
                     sub |-> [i \in 0..18 |-> VggTrainable],
                     top |-> <<>>]
    /\ layer_weights' = [sub |-> [i \in ConvLayers |-> 0], top |-> <<>>]
    /\ vggpc' = "stack"
    /\ UNCHANGED <<compiled, logdir, callbacks_pretrained, dirs, fit_logs, saved,
                   fit_epoch, clock>>
    /\ UNCHANGED vggFrame

\* model = Sequential([vgg16, Flatten(), Dense(...), Dense(...)]); model.compile(...)
StackModel ==
    /\ vggpc = "stack"
    /\ trainable' = [trainable EXCEPT !.top = [l \in StackedLayers |-> TRUE]]
    /\ layer_weights' = [layer_weights EXCEPT !.top = [l \in DenseLayers |-> 0]]
    /\ compiled' = <<TrainableWeights(trainable')>>
    /\ vggpc' = "logdir"
    /\ UNCHANGED <<logdir, callbacks_pretrained, dirs, fit_logs, saved, fit_epoch, clock>>
    /\ UNCHANGED vggFrame

\* logdir = ...; os.makedirs(logdir); callbacks_pretrained = [TensorBoard(log_dir=logdir)]
MakeLogdir ==
    /\ vggpc = "logdir"
    /\ \E now \in clock..MaxClock :
          /\ clock' = now
          /\ logdir' = <<"gtsrb-vgg16-", now>>
    /\ dirs' = dirs \cup {logdir'}
    /\ callbacks_pretrained' = logdir'
    /\ fit_epoch' = 0
    /\ vggpc' = "fit1"
    /\ UNCHANGED <<trainable, layer_weights, compiled, fit_logs, saved>>
    /\ UNCHANGED vggFrame

\* one epoch of model.fit(..., callbacks=callbacks_pretrained); the callback
\* logs to its log_dir from the first epoch on
FitEpoch ==
    /\ vggpc \in {"fit1", "fit2"}
    /\ fit_epoch < EpochsPretrained
    /\ layer_weights' = EpochOn(layer_weights, compiled[Len(compiled)])
    /\ fit_logs' = IF fit_epoch = 0 THEN Append(fit_logs, callbacks_pretrained)
                   ELSE fit_logs
    /\ fit_epoch' = fit_epoch + 1
    /\ UNCHANGED <<trainable, compiled, logdir, callbacks_pretrained, dirs, saved,
                   clock, vggpc>>
    /\ UNCHANGED vggFrame

\* model.save("gtsrb-vgg16-reuse.h5") / model.save("gtsrb-vgg16-finetune.h5")
SaveModel ==
    /\ vggpc \in {"fit1", "fit2"}
    /\ fit_epoch = EpochsPretrained
    /\ saved' = saved @@ ((IF vggpc = "fit1" THEN "gtsrb-vgg16-reuse.h5"
                           ELSE "gtsrb-vgg16-finetune.h5") :> layer_weights)
    /\ vggpc' = IF vggpc = "fit1" THEN "evaluate" ELSE "finished"
    /\ UNCHANGED <<trainable, layer_weights, compiled, logdir, callbacks_pretrained,
                   dirs, fit_logs, fit_epoch, clock>>
    /\ UNCHANGED vggFrame

\* scores = model.evaluate(test_dataset, verbose=2)
EvaluateTest ==
    /\ vggpc = "evaluate"
    /\ vggpc' = "finetune"
    /\ UNCHANGED <<trainable, layer_weights, compiled, logdir, callbacks_pretrained,
                   dirs, fit_logs, saved, fit_epoch, clock>>
    /\ UNCHANGED vggFrame

\* model.layers[0].trainable = True; layer.trainable = i >= 15; model.compile(...)
FineTuneSetup ==
    /\ vggpc = "finetune"
    /\ trainable' = [trainable EXCEPT !.vgg16 = TRUE,
                                      !.sub = [i \in 0..18 |-> Unfrozen(i)]]
    /\ compiled' = Append(compiled, TrainableWeights(trainable'))
    /\ fit_epoch' = 0
    /\ vggpc' = "fit2"
    /\ UNCHANGED <<layer_weights, logdir, callbacks_pretrained, dirs, fit_logs, saved, clock>>
    /\ UNCHANGED vggFrame

VggNext ==
    LoadVgg16 \/ StackModel \/ MakeLogdir \/ FitEpoch \/ SaveModel
    \/ EvaluateTest \/ FineTuneSetup

VggSpec == VggInit /\ [][VggNext]_vars

\* the positions of the first training phase: from the first fit to the
\* fine-tuning setup cell
InFirstPhase == vggpc \in {"fit1", "evaluate", "finetune"}

ImageNetWeights(w) == \A i \in ConvLayers : w.sub[i] = 0

\* C16: in the first training phase every VGG16 layer is frozen and no
\* VGG16 weight changes from its ImageNet value; only the stacked Dense
\* layers are updated, by every epoch; the model saved as
\* gtsrb-vgg16-reuse.h5 holds the unchanged VGG16 weights.
C16_VggFrozenInFirstPhase ==
    /\ InFirstPhase =>
          /\ ~trainable.vgg16 /\ \A i \in 0..18 : ~trainable.sub[i]
          /\ ImageNetWeights(layer_weights)
          /\ \A l \in DenseLayers :
                layer_weights.top[l] = IF vggpc = "fit1" THEN fit_epoch
                                       ELSE EpochsPretrained
    /\ "gtsrb-vgg16-reuse.h5" \in DOMAIN saved =>
          /\ ImageNetWeights(saved["gtsrb-vgg16-reuse.h5"])
          /\ \A l \in DenseLayers :
                saved["gtsrb-vgg16-reuse.h5"].top[l] = EpochsPretrained

\* the first fit is over and the model is saved
C16_Witness ==
    /\ vggpc = "evaluate"
    /\ "gtsrb-vgg16-reuse.h5" \in DOMAIN saved
    /\ layer_weights.top["dense"] = EpochsPretrained

AfterFineTuneSetup == vggpc \in {"fit2", "finished"}

\* C17: after the fine-tuning setup cell a VGG16 layer is trainable exactly
\* when its index is >= 15, which are exactly the layers of block5; the
\* layers of blocks 1-4 stay frozen (and their weights at the ImageNet
\* values), the stacked Dense layers stay trainable, and the model has been
\* compiled again with these flags before the fit starts.
C17_OnlyBlock5IsUnfrozen ==
    AfterFineTuneSetup =>
        /\ trainable.vgg16
        /\ \A i \in 0..18 :
              /\ trainable.sub[i] <=> i >= 15
              /\ trainable.sub[i] <=> BlockOf(i) = 5
        /\ \A l \in StackedLayers : trainable.top[l]
        /\ Len(compiled) = 2
        /\ compiled[2] = TrainableWeights(trainable)
        /\ compiled[2].sub = {15, 16, 17} /\ compiled[2].top = DenseLayers
        /\ \A i \in ConvLayers :
              layer_weights.sub[i] = IF BlockOf(i) = 5 THEN fit_epoch ELSE 0

\* the fine-tuning fit has run: block5 has been updated
C17_Witness ==
    /\ vggpc = "finished"
    /\ layer_weights.sub[15] = EpochsPretrained
    /\ layer_weights.sub[13] = 0

\* the directories created for the pre-trained model
PretrainedDirs == {d \in dirs : d[1] = "gtsrb-vgg16-"}

\* C18: before the fine-tuning fit starts a separate TensorBoard log
\* directory is created, and the fine-tuning fit logs to a directory
\* different from the one of the first training phase.
C18_SeparateFineTuningLogDirectory ==
    /\ vggpc = "fit2" => Cardinality(PretrainedDirs) = 2
    /\ Len(fit_logs) = 2 => fit_logs[1] # fit_logs[2]

-----------------------------------------------------------------------------
(* The linmodel cells of the California-housing notebook, run in any       *)
(* order and any number of times:                                          *)
(*     linmodel = Sequential(); linmodel.add(...); linmodel.compile(...)   *)
(*     epochs = 10; linhistory = linmodel.fit(X_train, y_train, ...)       *)
(* A model is [id, seed, trained]: the object, the random values its       *)
(* weights were initialized with, and the epochs its weights have been     *)
(* trained for.                                                            *)

\* the model-initialization cell is run at most MaxInits times
MaxInits == 3
\* the fit cell is run at most MaxFits times on a model
MaxFits == 2

\* epochs = 10
EpochsLinmodel == 10

\* the random initial values of the weights
Seeds == {1, 2}

\* (mutant) fit initializes the weights again before it trains
FitStartsFromScratch(trained) == 0

\* the epochs of training behind the weights that fit starts from
FitStartsFrom(trained) == trained

ChdInit ==
    /\ linmodel = <<>> /\ inits = 0 /\ fits_on_model = 0 /\ chd_epoch = 0
    /\ linhistory = 0 /\ chd_error = "none"
    /\ chdpc = "ready"
    /\ NoCall /\ NoRun /\ NoneBut("chd")

\* the model-initialization cell
InitLinmodel ==
    /\ chdpc = "ready"
    /\ inits < MaxInits
    /\ inits' = inits + 1
    /\ \E s \in Seeds : linmodel' = [id |-> inits', seed |-> s, trained |-> 0]
    /\ fits_on_model' = 0
    /\ chd_error' = "none"
    /\ UNCHANGED <<chd_epoch, linhistory, chdpc>>
    /\ UNCHANGED chdFrame

\* the fit cell starts: epochs = 10; linmodel.fit(...)
StartFit ==
    /\ chdpc = "ready"
    /\ linmodel # <<>>
    /\ fits_on_model < MaxFits
    /\ linmodel' = [linmodel EXCEPT !.trained = FitStartsFrom(@)]
    /\ chd_epoch' = 0
    /\ chd_error' = "none"
    /\ chdpc' = "fit"
    /\ UNCHANGED <<inits, fits_on_model, linhistory>>
    /\ UNCHANGED chdFrame

\* the fit cell run while linmodel is not bound
FitRaisesNameError ==
    /\ chdpc = "ready"
    /\ linmodel = <<>>
    /\ chd_error = "none"
    /\ chd_error' = "NameError"
    /\ UNCHANGED <<linmodel, inits, fits_on_model, chd_epoch, linhistory, chdpc>>
    /\ UNCHANGED chdFrame

\* one epoch of the fit
LinmodelEpoch ==
    /\ chdpc = "fit"
    /\ chd_epoch < EpochsLinmodel
    /\ linmodel' = [linmodel EXCEPT !.trained = @ + 1]
    /\ chd_epoch' = chd_epoch + 1
    /\ UNCHANGED <<inits, fits_on_model, linhistory, chd_error, chdpc>>
    /\ UNCHANGED chdFrame

\* fit returns: linhistory is bound
EndFit ==
    /\ chdpc = "fit"
    /\ chd_epoch = EpochsLinmodel
    /\ linhistory' = chd_epoch
    /\ fits_on_model' = fits_on_model + 1
    /\ chdpc' = "ready"
    /\ UNCHANGED <<linmodel, inits, chd_epoch, chd_error>>
    /\ UNCHANGED chdFrame

ChdNext == InitLinmodel \/ StartFit \/ FitRaisesNameError \/ LinmodelEpoch \/ EndFit

ChdSpec == ChdInit /\ [][ChdNext]_vars

\* C19: for any sequence of runs of the two cells, the weights of linmodel
\* have been trained for n * epochs epochs after n runs of the fit cell on
\* it (every fit continues from the weights the previous one left), and a
\* run of the model-initialization cell binds linmodel to a new model with
\* freshly initialized weights, so that the next fit starts from scratch.
C19_FitContinuesInitRestarts ==
    linmodel # <<>> =>
        /\ linmodel.id = inits
        /\ linmodel.trained =
              fits_on_model * EpochsLinmodel + (IF chdpc = "fit" THEN chd_epoch ELSE 0)

\* the second model bound to linmodel, trained by two runs of the fit cell
C19_Witness ==
    /\ chdpc = "ready" /\ inits = 2 /\ fits_on_model = 2
    /\ linmodel.trained = 2 * EpochsLinmodel /\ linhistory = EpochsLinmodel

-----------------------------------------------------------------------------
(* dataset.map(process_and_..._image, num_parallel_calls=10): up to        *)
(* num_parallel_calls calls of the map function run at a time, statement   *)
(* by statement in any interleaving; the map yields the results in the     *)
(* order of the input elements.  A frame holds the parameters and locals   *)
(* of a call: image and label.                                             *)

\* num_parallel_calls is drawn from 1..MaxParallel
MaxParallel == 2

\* the statements a call of the map function fn runs, in order
Statements(fn) ==
    IF fn = "process_and_augment_image"
    THEN <<"label.set_shape", "image.set_shape", "resize_80", "random_crop",
           "random_flip_left_right", "random_brightness", "clip_by_value",
           "divide_255", "image.set_shape", "return">>
    ELSE <<"label.set_shape", "image.set_shape", "resize_75", "divide_255",
           "image.set_shape", "return">>

\* the statements that bind image to a new tensor
Rebinds == {"resize_80", "resize_75", "random_crop", "random_flip_left_right",
            "random_brightness", "clip_by_value", "divide_255"}

\* (mutant) image declared global in preprocess_image
ImageScopeGlobal == "global"

\* image is a parameter of preprocess_image: a local of each call
ImageScope == "local"

\* the value of image that a statement of call i reads
ReadImage(i) == IF ImageScope = "local" THEN in_flight[i].image ELSE shared

\* the tensor a statement binds image to
Rebound(stmt, image, draw) ==
    [image EXCEPT !.ops = Append(@, stmt),
                  !.draw = IF stmt = "random_crop" THEN draw ELSE @]

MapInit ==
    /\ ds \in Datasets
    /\ \E n \in 0..MaxImages :
          /\ image_paths = [i \in 1..n |-> i]
          /\ image_labels \in [1..n -> {0, 1}]
    /\ num_parallel_calls \in 1..MaxParallel
    /\ in_flight = <<>> /\ started = 0 /\ out = <<>>
    /\ shared = <<>> /\ shared_writes = 0 /\ returned = <<>>
    /\ mappc = "run"
    /\ BATCH_SIZE = 0 /\ mapped = <<>> /\ passes = <<>> /\ augpc = "idle"
    /\ NoCall /\ NoRun
    /\ NoTags /\ NoSplit /\ NoEmb /\ NoPaths /\ NoVgg /\ NoChd /\ NoCalls

\* the map calls its function on the next element (loaded by map(load_image))
StartCall ==
    /\ mappc = "run"
    /\ started < Len(image_paths)
    /\ Cardinality(DOMAIN in_flight) < num_parallel_calls
    /\ LET i == started + 1
           loaded == load_image(image_paths[i], image_labels[i])
       IN  /\ in_flight' = in_flight @@
                  (i :> [at |-> 1, image |-> loaded[1], label |-> loaded[2],
                         result |-> <<>>])
           /\ IF ImageScope = "local"
              THEN UNCHANGED <<shared, shared_writes>>
              ELSE shared' = loaded[1] /\ shared_writes' = shared_writes + 1
    /\ started' = started + 1
    /\ UNCHANGED <<num_parallel_calls, out, mappc, returned>>
    /\ UNCHANGED <<ds, image_paths, image_labels, BATCH_SIZE, mapped, passes, augpc>>
    /\ UNCHANGED mapFrame

\* a call runs its next statement
StepCall ==
    /\ mappc = "run"
    /\ \E i \in DOMAIN in_flight :
          LET f == in_flight[i]
              stmts == Statements(MapFunction(ds))
          IN  /\ f.at <= Len(stmts)
              /\ \E draw \in RandomDraws :
                    LET stmt == stmts[f.at]
                        new == Rebound(stmt, ReadImage(i), draw)
                    IN  /\ in_flight' =
                              [in_flight EXCEPT ![i] =
                                  [at |-> f.at + 1,
                                   image |-> IF stmt \in Rebinds /\ ImageScope = "local"
                                             THEN new ELSE f.image,
                                   label |-> f.label,
                                   result |-> IF stmt = "return"
                                              THEN <<ReadImage(i), f.label>>
                                              ELSE f.result]]
                        /\ IF stmt \in Rebinds /\ ImageScope # "local"
                           THEN shared' = new /\ shared_writes' = shared_writes + 1
                           ELSE UNCHANGED <<shared, shared_writes>>
                        /\ returned' = IF stmt = "return" THEN Append(returned, i)
                                       ELSE returned
    /\ UNCHANGED <<num_parallel_calls, started, out, mappc>>
    /\ UNCHANGED <<ds, image_paths, image_labels, BATCH_SIZE, mapped, passes, augpc>>
    /\ UNCHANGED mapFrame

\* the map yields the result of the next element in input order
YieldNext ==
    /\ mappc = "run"
    /\ LET i == Len(out) + 1
       IN  /\ i \in DOMAIN in_flight
           /\ in_flight[i].result # <<>>
           /\ out' = Append(out, in_flight[i].result)
           /\ in_flight' = [c \in DOMAIN in_flight \ {i} |-> in_flight[c]]
    /\ mappc' = IF Len(out') = Len(image_paths) THEN "done" ELSE "run"
    /\ UNCHANGED <<num_parallel_calls, started, shared, shared_writes, returned>>
    /\ UNCHANGED <<ds, image_paths, image_labels, BATCH_SIZE, mapped, passes, augpc>>
    /\ UNCHANGED mapFrame

MapNext == StartCall \/ StepCall \/ YieldNext

MapSpec == MapInit /\ [][MapNext]_vars

\* the element that a call on its own makes of input element i
Sequentially(i) ==
    LET loaded == load_image(image_paths[i], image_labels[i])
    IN  process_and_not_augment_image(loaded[1], loaded[2], 0)

\* C20: the calls of the map function write no variable shared between
\* calls; under every interleaving of the calls validation_dataset and
\* test_dataset yield the elements that calls run one after the other
\* yield, in input order, and in every dataset each image is yielded with
\* the label of its own file.
C20_ParallelMapKeepsOrderAndPairs ==
    /\ shared_writes = 0
    /\ ds # "train" => \A i \in 1..Len(out) : out[i] = Sequentially(i)
    /\ \A i \in 1..Len(out) :
          /\ out[i][1].file = image_paths[i]
          /\ out[i][2] = image_labels[i]

\* the two calls of a validation map have run at the same time and the
\* call of the second element has returned first; both elements are yielded
C20_Witness ==
    /\ ds = "validation" /\ mappc = "done" /\ Len(out) = 2
    /\ returned = <<2, 1>>
    /\ image_labels[1] # image_labels[2]

-----------------------------------------------------------------------------
(* A session that calls scores_at_k several times on the same labels, as   *)
(* the notebook does for its two models:                                   *)
(*     scores_at_k(y_val, predictions, 5)                                  *)
(* The arrays are passed by reference: what a call does to truevals or     *)
(* predvals is what the caller finds in y_val and predictions afterwards.  *)

\* a session makes at most MaxCalls calls
MaxCalls == 3
\* y_val and predictions hold at most MaxCallCells entries each
MaxCallCells == 2

CallShapes ==
    {sh \in (0..MaxCallCells) \X (1..MaxCallCells) : sh[1] * sh[2] <= MaxCallCells}

\* the prediction scores of a session
CallScores == {0, 1}

\* the names that statements of dcg_at_k and scores_at_k assign
AssignedNames ==
    {"res", "i", "precision_at_k", "recall_at_k", "f1score_at_k", "ndcg_at_k",
     "j", "z", "sorted_z", "opt_z", "truesum", "pr", "rc", "cg"}

\* the names the two functions declare global or nonlocal
DeclaredGlobal == {}

\* the targets of assignments to an element or attribute of an object
AssignedElements == {}

\* the variables outside a call that the statements of the call write
WrittenOutside == (AssignedNames \cap DeclaredGlobal) \cup AssignedElements

CallsInit ==
    /\ \E sh \in CallShapes :
          /\ caller_y_val \in Rows(sh[1], sh[2], {0, 1})
          /\ caller_predictions \in Rows(sh[1], sh[2], CallScores)
          /\ ref_k \in 0..(sh[2] + 1)
    /\ ref_predvals = caller_predictions
    /\ ncalls = 0 /\ ref_calls = 0 /\ ref_outcomes = {}
    /\ other_between = FALSE /\ args_changed = FALSE
    /\ callpc = "idle"
    /\ NoCall /\ NoRun /\ NoneBut("call")

\* the number of labels of a sample
RowLen(rows) == IF Len(rows) = 0 THEN 1 ELSE Len(rows[1])

\* scores_at_k(y_val, predictions, k) is called: the parameters are bound
\* and the accumulators are set to 0
BeginCall ==
    /\ callpc = "idle"
    /\ ncalls < MaxCalls
    /\ \E pv \in Rows(Len(caller_y_val), RowLen(caller_y_val), CallScores) :
          /\ caller_predictions' = pv
          /\ predvals' = pv
    /\ k' \in 0..(RowLen(caller_y_val) + 1)
    /\ truevals' = caller_y_val
    /\ pc' = "loop"
    /\ j' = 0
    /\ SetAccs(Acc0)
    /\ error' = "none"
    /\ report' = <<>>
    /\ ncalls' = ncalls + 1
    /\ callpc' = "call"
    /\ UNCHANGED <<caller_y_val, ref_predvals, ref_k, ref_calls, ref_outcomes,
                   other_between, args_changed>>
    /\ UNCHANGED callFrame

\* the call ends, by its last print or by an exception
EndCall ==
    /\ callpc = "call"
    /\ pc \in {"done", "raised"}
    /\ caller_y_val' = truevals
    /\ caller_predictions' = predvals
    /\ args_changed' = (\/ args_changed
                        \/ truevals # caller_y_val
                        \/ predvals # caller_predictions)
    /\ IF caller_predictions = ref_predvals /\ k = ref_k
       THEN /\ ref_calls' = ref_calls + 1
            /\ ref_outcomes' = ref_outcomes \cup {<<report, error>>}
            /\ UNCHANGED other_between
       ELSE /\ other_between' = (other_between \/ ref_calls >= 1)
            /\ UNCHANGED <<ref_calls, ref_outcomes>>
    /\ callpc' = "idle"
    /\ UNCHANGED <<ncalls, ref_predvals, ref_k>>
    /\ UNCHANGED scoreVars
    /\ UNCHANGED callFrame

CallsNext == BeginCall \/ Body \/ BodyRaises \/ Finish \/ FinishRaises \/ EndCall

CallsSpec == CallsInit /\ [][CallsNext]_vars

\* C21: scores_at_k and dcg_at_k keep no state: their statements write no
\* variable outside the call, a call leaves truevals and predvals as they
\* were passed, and all calls with equal arguments print the same four
\* values (or raise the same exception), whatever calls are made in between.
C21_CallsKeepNoState ==
    /\ WrittenOutside = {}
    /\ ~args_changed
    /\ callpc = "call" => truevals = caller_y_val /\ predvals = caller_predictions
    /\ Cardinality(ref_outcomes) <= 1

\* two calls with equal arguments have printed their values, with a call
\* with other arguments between them
C21_Witness ==
    /\ callpc = "idle" /\ ref_calls = 2 /\ other_between
    /\ \E o \in ref_outcomes : Len(o[1]) = 4 /\ o[2] = "none"
    /\ Len(caller_y_val) >= 1

=============================================================================
